---------------------------- MODULE Spec2Model ----------------------------
(***************************************************************************)
(* A model of streamlit_app.py: the dashboard assistant.                   *)
(*                                                                         *)
(*   - the Table Contract Providers (the seven *ForLSTool classes bound in *)
(*     setup_agent) and the Schema Catalog (DataSchemaRoadmapTool),        *)
(*   - the Query Executor (execute_bigquery),                              *)
(*   - the Agent Controller (setup_agent, run_agent) around the external   *)
(*     reasoning engine's think/act loop,                                  *)
(*   - the session (app_state, attempt_login, chat_page, main).            *)
(*                                                                         *)
(* Strings.  A Python string is a sequence of chunks (TLA+ strings) whose  *)
(* concatenation is the text.  The characters the code treats specially    *)
(* (newline, the two quotes, the backslash, the backtick) are always       *)
(* chunks of their own, and a string whose letters the code inspects (a    *)
(* tool input, a dict key) is written one character per chunk, so that     *)
(* lower(), capitalize(), startswith(), split() and repr() act on it as    *)
(* Python does.                                                            *)
(***************************************************************************)
EXTENDS Integers, Sequences, FiniteSets, TLC

VARIABLES
  has_app_state,   \* "app_state" in st.session_state
  app_state,       \* st.session_state.app_state: logged_in, messages (the
                   \* transcript), openai_api_key, agent
  widget_key,      \* st.session_state.openai_api_key, the text input's value
  environ_key,     \* os.environ["OPENAI_API_KEY"]
  pc,              \* where the running script is
  prompt,          \* run_agent's argument `prompt`
  run_on,          \* run_agent's argument `agent`
  iterations,      \* the engine's iteration counter of the current run
  last_call,       \* the loop's last tool invocation, while the loop runs:
                   \* tool, input, the warehouse's part, what was sent to
                   \* the warehouse, what came back
  engine_out,      \* how agent.run ended
  ask_result,      \* how run_agent ended
  engine_in,       \* the text run_agent has handed to agent.run
  catalog          \* self.schema_map of the DataSchemaRoadmapTool bound in
                   \* `tools` (empty while no agent is set up)

vars == << has_app_state, app_state, widget_key, environ_key, pc, prompt,
           run_on, iterations, last_call, engine_out, ask_result, engine_in,
           catalog >>

---------------------------------------------------------------------------
(* Python strings                                                          *)

\* The backtick character (U+0060), which a TLA+ string literal cannot hold.
BT == "U+0060"

UpperAlpha ==
  << "A","B","C","D","E","F","G","H","I","J","K","L","M",
     "N","O","P","Q","R","S","T","U","V","W","X","Y","Z" >>

LowerAlpha ==
  << "a","b","c","d","e","f","g","h","i","j","k","l","m",
     "n","o","p","q","r","s","t","u","v","w","x","y","z" >>

\* str.lower() on one character.
lower_char(c) ==
  IF \E i \in DOMAIN UpperAlpha : UpperAlpha[i] = c
    THEN LowerAlpha[CHOOSE i \in DOMAIN UpperAlpha : UpperAlpha[i] = c]
    ELSE c

\* str.upper() on one character.
upper_char(c) ==
  IF \E i \in DOMAIN LowerAlpha : LowerAlpha[i] = c
    THEN UpperAlpha[CHOOSE i \in DOMAIN LowerAlpha : LowerAlpha[i] = c]
    ELSE c

\* A lower() that leaves the text as it is.
str_lower_identity(s) == s

\* A lower() that is capitalize(): the first letter upper, the rest lower.
str_lower_capitalized(s) ==
  [i \in DOMAIN s |-> IF i = 1 THEN upper_char(s[i]) ELSE lower_char(s[i])]

\* str.lower()
str_lower(s) == [i \in DOMAIN s |-> lower_char(s[i])]

\* str.upper()
str_upper(s) == [i \in DOMAIN s |-> upper_char(s[i])]

\* str.capitalize(): the first character upper-cased, the rest lower-cased.
str_capitalize(s) ==
  [i \in DOMAIN s |-> IF i = 1 THEN upper_char(s[i]) ELSE lower_char(s[i])]

\* s.startswith(p)
str_startswith(s, p) == Len(s) >= Len(p) /\ SubSeq(s, 1, Len(p)) = p

\* sep.join(parts)
RECURSIVE str_join(_, _)
str_join(sep, parts) ==
  IF Len(parts) = 0 THEN <<>>
  ELSE IF Len(parts) = 1 THEN parts[1]
  ELSE LET half == Len(parts) \div 2
       IN str_join(sep, SubSeq(parts, 1, half)) \o sep
          \o str_join(sep, SubSeq(parts, half + 1, Len(parts)))

\* How a call ends: it returns a value, or an exception leaves it.
Returned(v) == [raised |-> FALSE, value |-> v]
Raised(msg) == [raised |-> TRUE, value |-> msg]

\* `k in d` and `d[k]` for a dict, kept as the sequence of its items.
dict_has(d, k) == \E i \in DOMAIN d : d[i].key = k
dict_get(d, k) == d[CHOOSE i \in DOMAIN d : d[i].key = k].value
dict_keys(d) == [i \in DOMAIN d |-> d[i].key]

\* repr() of a str: Python quotes with ' unless the text holds a ' and no ",
\* and escapes the backslash, the newline and the quote it chose.
repr_str(s) ==
  LET hasSQ == \E i \in DOMAIN s : s[i] = "'"
      hasDQ == \E i \in DOMAIN s : s[i] = "\""
      q == IF hasSQ /\ ~hasDQ THEN "\"" ELSE "'"
      esc(c) == IF c = "\\" THEN <<"\\", "\\">>
                ELSE IF c = "\n" THEN <<"\\", "n">>
                ELSE IF c = q THEN <<"\\", q>>
                ELSE <<c>>
  IN <<q>> \o str_join(<<>>, [i \in DOMAIN s |-> esc(s[i])]) \o <<q>>

\* repr() of a list of str.
repr_list(l) ==
  <<"[">> \o str_join(<<", ">>, [i \in DOMAIN l |-> repr_str(l[i])]) \o <<"]">>

\* repr() of a dict of str to str.
repr_dict(d) ==
  <<"{">>
  \o str_join(<<", ">>,
       [i \in DOMAIN d |-> repr_str(d[i].key) \o <<": ">> \o repr_str(d[i].value)])
  \o <<"}">>

\* repr() of a value of table_info: a str, a list of str or a dict of str.
repr_value(v) ==
  IF v.type = "str" THEN repr_str(v.val)
  ELSE IF v.type = "list" THEN repr_list(v.val)
  ELSE repr_dict(v.val)

\* str() of a value of table_info: a str is itself, the rest is its repr().
str_value(v) == IF v.type = "str" THEN v.val ELSE repr_value(v)

\* str() of the keys of table_info only.
str_table_info_keys(d) == repr_list(dict_keys(d))

\* str(self.table_info)
str_table_info(d) ==
  <<"{">>
  \o str_join(<<", ">>,
       [i \in DOMAIN d |-> repr_str(d[i].key) \o <<": ">> \o repr_value(d[i].value)])
  \o <<"}">>

---------------------------------------------------------------------------
(* The Table Contract Providers                                            *)

\* CallsForLSTool.table_info["fields"] (lines 313-320): field name -> provenance text.
CallsForLS_fields ==
  << [key |-> <<"g","h","l","_","l","o","c","a","t","i","o","n","_","i","d">>,
      value |-> <<"Directly selected from the source table using: SELECT ghl_location_id">>],
     [key |-> <<"g","h","l","_","l","o","c","a","t","i","o","n","_","n","a","m","e">>,
      value |-> <<"Directly selected from the source table using: SELECT ghl_location_name">>],
     [key |-> <<"c","a","l","l","_","d","a","t","e">>,
      value |-> <<"Calculated using: PARSE_DATE(", "'", "%Y-%m-%d", "'",
                   ", SUBSTR(call_started_at, 1, 10)) AS call_date">>],
     [key |-> <<"T","o","t","a","l","_","C","a","l","l","s">>,
      value |-> <<"Calculated using: SUM(CASE WHEN call_direction = ", "\"", "inbound", "\"", " AND first_time = ",
                   "\"", "True", "\"", " THEN 1 ELSE 0 END) AS Total_Calls">>],
     [key |-> <<"A","n","s","w","e","r","e","d","_","C","a","l","l","s">>,
      value |-> <<"Calculated using: SUM(CASE WHEN call_direction = ", "\"", "inbound", "\"", " AND first_time = ",
                   "\"", "True", "\"", " AND call_status = ", "\"", "completed", "\"",
                   " THEN 1 ELSE 0 END) AS Answered_Calls">>],
     [key |-> <<"M","i","s","s","e","d","_","C","a","l","l","s">>,
      value |-> <<"Calculated using: SUM(CASE WHEN call_direction = ", "\"", "inbound", "\"", " AND first_time = ",
                   "\"", "True", "\"", " AND call_status = ", "\"", "no-answer", "\"",
                   " THEN 1 ELSE 0 END) AS Missed_Calls">>] >>
\* CallsForLSTool.table_info["full_query"] (lines 325-337), the text line by line.
CallsForLS_full_query ==
  << "\n",
     "            CREATE OR REPLACE TABLE ", BT, "the-pulse-405018.the_pulse.calls_forLS", BT, "\n",
     "            CLUSTER BY ghl_location_id AS", "\n",
     "            SELECT", "\n",
     "                ghl_location_id,", "\n",
     "                ghl_location_name,", "\n",
     "                PARSE_DATE(", "'", "%Y-%m-%d", "'",
        ", SUBSTR(call_started_at, 1, 10)) AS call_date,", "\n",
     "                SUM(CASE WHEN call_direction = ", "\"", "inbound", "\"", " AND first_time = ",
        "\"", "True", "\"", " THEN 1 ELSE 0 END) AS Total_Calls,", "\n",
     "                SUM(CASE WHEN call_direction = ", "\"", "inbound", "\"", " AND first_time = ",
        "\"", "True", "\"", " AND call_status = ", "\"", "completed", "\"",
        " THEN 1 ELSE 0 END) AS Answered_Calls,", "\n",
     "                SUM(CASE WHEN call_direction = ", "\"", "inbound", "\"", " AND first_time = ",
        "\"", "True", "\"", " AND call_status = ", "\"", "no-answer", "\"",
        " THEN 1 ELSE 0 END) AS Missed_Calls", "\n",
     "            FROM ", BT, "the-pulse-405018.the_pulse.calls_bq", BT, "\n",
     "            GROUP BY ghl_location_id, ghl_location_name, call_started_at", "\n",
     "            " >>
\* CallsForLSTool.table_info (lines 308-338): the dict, its keys in the order written.
CallsForLS_table_info ==
  << [key |-> <<"n","a","m","e">>,
      value |-> [type |-> "str", val |-> <<"calls_forLS">>]],
     [key |-> <<"d","e","s","c","r","i","p","t","i","o","n">>,
      value |-> [type |-> "str", val |-> <<"Provides information about call data.">>]],
     [key |-> <<"f","i","e","l","d","s">>,
      value |-> [type |-> "dict", val |-> CallsForLS_fields]],
     [key |-> <<"s","o","u","r","c","e","_","t","a","b","l","e">>,
      value |-> [type |-> "str", val |-> <<"the-pulse-405018.the_pulse.calls_bq">>]],
     [key |-> <<"c","l","u","s","t","e","r","i","n","g">>,
      value |-> [type |-> "str", val |-> <<"CLUSTER BY ghl_location_id">>]],
     [key |-> <<"p","a","r","t","i","t","i","o","n","i","n","g">>,
      value |-> [type |-> "str", val |-> <<"none">>]],
     [key |-> <<"g","r","o","u","p","i","n","g">>,
      value |-> [type |-> "str", val |-> <<"GROUP BY ghl_location_id, ghl_location_name, call_started_at">>]],
     [key |-> <<"f","u","l","l","_","q","u","e","r","y">>,
      value |-> [type |-> "str", val |-> CallsForLS_full_query]] >>

\* OpportunitiesForLSTool.table_info["fields"] (lines 367-392): field name -> provenance text.
OpportunitiesForLS_fields ==
  << [key |-> <<"g","h","l","_","l","o","c","a","t","i","o","n","_","i","d">>,
      value |-> <<"Directly selected from the source table">>],
     [key |-> <<"g","h","l","_","l","o","c","a","t","i","o","n","_","n","a","m","e">>,
      value |-> <<"Directly selected from the source table">>],
     [key |-> <<"c","o","n","t","a","c","t","_","i","d">>,
      value |-> <<"Directly selected from the source table">>],
     [key |-> <<"c","o","n","t","a","c","t","_","e","m","a","i","l">>,
      value |-> <<"Directly selected from the source table">>],
     [key |-> <<"c","o","n","t","a","c","t","_","t","a","g","s">>,
      value |-> <<"Directly selected from the source table">>],
     [key |-> <<"o","p","p","o","r","t","u","n","i","t","y","_","c","r","e","a","t","e","d","_","d","a","t","e">>,
      value |-> <<"Directly selected from the source table">>],
     [key |-> <<"o","p","p","o","r","t","u","n","i","t","y","_","i","d">>,
      value |-> <<"Directly selected from the source table">>],
     [key |-> <<"L","e","a","d","s">>,
      value |-> <<"CASE WHEN opportunity_id != ", "'", "'", " THEN 1 ELSE 0 END">>],
     [key |-> <<"Q","u","a","l","i","f","i","e","d">>,
      value |-> <<"CASE WHEN opportunity_id != ", "'", "'", " AND opportunity_status != ", "'", "abandoned", "'",
                   " THEN 1 ELSE 0 END">>],
     [key |-> <<"R","e","t","a","i","n","e","d">>,
      value |-> <<"CASE WHEN opportunity_id != ", "'", "'", " AND opportunity_stage_name = ", "'", "Retained", "'",
                   " THEN 1 ELSE 0 END">>],
     [key |-> <<"O","p","e","n","_","1">>,
      value |-> <<"CASE WHEN opportunity_id != ", "'", "'", " AND (opportunity_status = ", "'", "open", "'",
                   " OR opportunity_status = ", "'", "open", "'", ") THEN 1 ELSE 0 END">>],
     [key |-> <<"L","o","s","t">>,
      value |-> <<"CASE WHEN opportunity_id != ", "'", "'", " AND opportunity_status = ", "'", "lost", "'",
                   " THEN 1 ELSE 0 END">>],
     [key |-> <<"S","i","g","n","e","d","_","C","a","s","e","s">>,
      value |-> <<"CASE WHEN opportunity_id != ", "'", "'", " AND opportunity_status = ", "'", "won", "'",
                   " THEN 1 ELSE 0 END">>],
     [key |-> <<"o","p","p","o","r","t","u","n","i","t","y","_","p","i","p","e","l","i","n","e","_","n","a","m","e">>,
      value |-> <<"Directly selected from the source table">>],
     [key |-> <<"o","p","p","o","r","t","u","n","i","t","y","_","p","i","p","e","l","i","n","e","_","i","d">>,
      value |-> <<"Directly selected from the source table">>],
     [key |-> <<"o","p","p","o","r","t","u","n","i","t","y","_","s","t","a","g","e","_","n","a","m","e">>,
      value |-> <<"Directly selected from the source table">>],
     [key |-> <<"o","p","p","o","r","t","u","n","i","t","y","_","s","t","a","g","e","_","i","d">>,
      value |-> <<"Directly selected from the source table">>],
     [key |-> <<"o","p","p","o","r","t","u","n","i","t","y","_","s","o","u","r","c","e">>,
      value |-> <<"CASE WHEN opportunity_source = ", "'", "'", " THEN ", "'", "Not Indicated", "'",
                   " WHEN opportunity_source IS NULL THEN ", "'", "Not Indicated", "'", " WHEN opportunity_source = ",
                   "'", "undefined", "'", " THEN ", "'", "Undefined", "'", " WHEN opportunity_source = ", "'", "LSA",
                   "'", " THEN ", "'", "Undefined", "'", " ELSE opportunity_source END">>],
     [key |-> <<"R","e","v","e","n","u","e">>,
      value |-> <<"SELECT opportunity_value AS Revenue">>],
     [key |-> <<"S","t","a","t","u","s">>,
      value |-> <<"SELECT opportunity_status AS Status">>],
     [key |-> <<"o","p","p","o","r","t","u","n","i","t","y","_","a","s","s","i","g","n","e","d","_","u","s","e","r">>,
      value |-> <<"Directly selected from the source table">>],
     [key |-> <<"L","o","c","a","t","i","o","n">>,
      value |-> <<"CASE WHEN opportunity_location = ", "'", "'", " THEN ", "'", "Not Indicated", "'",
                   " WHEN opportunity_location IS NULL THEN ", "'", "Not Indicated", "'",
                   " ELSE opportunity_location END">>],
     [key |-> <<"M","e","d","i","u","m">>,
      value |-> <<"SELECT opportunity_medium AS Medium">>],
     [key |-> <<"T","y","p","e">>,
      value |-> <<"SELECT opportunity_case_type AS Type">>] >>
\* OpportunitiesForLSTool.table_info["full_query"] (lines 397-464), the text line by line.
OpportunitiesForLS_full_query ==
  << "\n",
     "            CREATE OR REPLACE TABLE ", BT, "the-pulse-405018.the_pulse.opportunities_forLS", BT,
        "\n",
     "            PARTITION BY opportunity_created_date", "\n",
     "            CLUSTER BY ghl_location_id, opportunity_source, Location, Medium", "\n",
     "            AS", "\n",
     "            SELECT", "\n",
     "                ghl_location_id,", "\n",
     "                ghl_location_name,", "\n",
     "                contact_id,", "\n",
     "                contact_email,", "\n",
     "                contact_tags,", "\n",
     "                opportunity_created_date,", "\n",
     "                opportunity_id,", "\n",
     "                CASE WHEN opportunity_id != ", "\"", "\"", " THEN 1 ELSE 0 END AS Leads,", "\n",
     "                CASE WHEN opportunity_id != ", "\"", "\"", " AND opportunity_status != ", "\"",
        "abandoned", "\"", " THEN 1 ELSE 0 END AS Qualified,", "\n",
     "                CASE WHEN opportunity_id != ", "\"", "\"", " AND opportunity_stage_name = ", "\"",
        "Retained", "\"", " THEN 1 ELSE 0 END AS Retained,", "\n",
     "                CASE WHEN opportunity_id != ", "\"", "\"", " AND (opportunity_status = ", "\"",
        "open", "\"", " OR opportunity_status = ", "\"", "open", "\"",
        ") THEN 1 ELSE 0 END AS Open_1, -- Not yet less retained", "\n",
     "                CASE WHEN opportunity_id != ", "\"", "\"", " AND opportunity_status = ", "\"",
        "lost", "\"", " THEN 1 ELSE 0 END AS Lost,", "\n",
     "                CASE WHEN opportunity_id != ", "\"", "\"", " AND opportunity_status = ", "\"",
        "won", "\"", " THEN 1 ELSE 0 END AS Signed_Cases,", "\n",
     "                opportunity_pipeline_name,", "\n",
     "                opportunity_pipeline_id,", "\n",
     "                opportunity_stage_name,", "\n",
     "                opportunity_stage_id,", "\n",
     "                CASE", "\n",
     "                    WHEN opportunity_source = ", "\"", "\"", " THEN ", "\"", "Not Indicated", "\"",
        "\n",
     "                    WHEN opportunity_source IS NULL THEN ", "\"", "Not Indicated", "\"", "\n",
     "                    WHEN opportunity_source = ", "\"", "undefined", "\"", " THEN ", "\"",
        "Undefined", "\"", "\n",
     "                    WHEN opportunity_source = ", "\"", "LSA", "\"", " THEN ", "\"", "Undefined",
        "\"", "\n",
     "                    ELSE opportunity_source", "\n",
     "                END AS opportunity_source,", "\n",
     "                opportunity_value AS Revenue,", "\n",
     "                opportunity_status AS Status,", "\n",
     "                opportunity_assigned_user,", "\n",
     "                CASE", "\n",
     "                    WHEN opportunity_location = ", "\"", "\"", " THEN ", "\"", "Not Indicated",
        "\"", "\n",
     "                    WHEN opportunity_location IS NULL THEN ", "\"", "Not Indicated", "\"", "\n",
     "                    ELSE opportunity_location", "\n",
     "                END AS Location,", "\n",
     "                opportunity_medium AS Medium,", "\n",
     "                opportunity_case_type AS Type", "\n",
     "            FROM ", BT, "the-pulse-405018.the_pulse.lfgm_opportunities_bq", BT, "\n",
     "            UNION ALL", "\n",
     "            SELECT", "\n",
     "                ", "\"", "ABC", "\"", " AS ghl_location_id,", "\n",
     "                ", "\"", "ABC", "\"", " AS ghl_location_name,", "\n",
     "                ", "\"", "ABC", "\"", " AS contact_id,", "\n",
     "                ", "\"", "ABC", "\"", " AS contact_email,", "\n",
     "                ", "\"", "ABC", "\"", " AS contact_tags,", "\n",
     "                NULL AS opportunity_created_date,", "\n",
     "                ", "\"", "\"", " AS opportunity_id,", "\n",
     "                1 AS Leads,", "\n",
     "                1 AS Qualified,", "\n",
     "                1 AS Retained,", "\n",
     "                1 AS Open_1,", "\n",
     "                1 AS Lost,", "\n",
     "                1 AS Signed_Cases,", "\n",
     "                ", "\"", "\"", " AS opportunity_pipeline_name,", "\n",
     "                ", "\"", "\"", " AS opportunity_pipeline_id,", "\n",
     "                ", "\"", "\"", " AS opportunity_stage_name,", "\n",
     "                ", "\"", "Not Indicated", "\"", " AS opportunity_stage_id,", "\n",
     "                ", "\"", "Not Indicated", "\"", " AS opportunity_source,", "\n",
     "                0 AS Revenue,", "\n",
     "                ", "\"", "\"", " AS Status,", "\n",
     "                ", "\"", "\"", " AS opportunity_assigned_user,", "\n",
     "                ", "\"", "Not Indicated", "\"", " AS Location,", "\n",
     "                ", "\"", "AS", "\"", " AS Medium,", "\n",
     "                ", "\"", "\"", " AS Type", "\n",
     "            " >>
\* OpportunitiesForLSTool.table_info (lines 362-465): the dict, its keys in the order written.
OpportunitiesForLS_table_info ==
  << [key |-> <<"n","a","m","e">>,
      value |-> [type |-> "str", val |-> <<"opportunities_forLS">>]],
     [key |-> <<"d","e","s","c","r","i","p","t","i","o","n">>,
      value |-> [type |-> "str", val |-> <<"Provides information about opportunities data.">>]],
     [key |-> <<"f","i","e","l","d","s">>,
      value |-> [type |-> "dict", val |-> OpportunitiesForLS_fields]],
     [key |-> <<"s","o","u","r","c","e","_","t","a","b","l","e">>,
      value |-> [type |-> "str", val |-> <<"the-pulse-405018.the_pulse.lfgm_opportunities_bq">>]],
     [key |-> <<"p","a","r","t","i","t","i","o","n","i","n","g">>,
      value |-> [type |-> "str", val |-> <<"PARTITION BY opportunity_created_date">>]],
     [key |-> <<"c","l","u","s","t","e","r","i","n","g">>,
      value |-> [type |-> "str", val |-> <<"CLUSTER BY ghl_location_id, opportunity_source, Location, Medium">>]],
     [key |-> <<"g","r","o","u","p","i","n","g">>,
      value |-> [type |-> "str", val |-> <<"none">>]],
     [key |-> <<"f","u","l","l","_","q","u","e","r","y">>,
      value |-> [type |-> "str", val |-> OpportunitiesForLS_full_query]] >>

\* AdExpenseDataForLSTool.table_info["fields"] (lines 157-162): field name -> provenance text.
AdExpenseDataForLS_fields ==
  << [key |-> <<"g","h","l","_","l","o","c","a","t","i","o","n","_","i","d">>,
      value |-> <<"Directly selected from the source table using: SELECT ghl_location_id">>],
     [key |-> <<"g","h","l","_","l","o","c","a","t","i","o","n","_","n","a","m","e">>,
      value |-> <<"Directly selected from the source table using: SELECT ghl_location_name">>],
     [key |-> <<"f","o","r","m","a","t","t","e","d","_","e","x","p","e","n","s","e","_","m","o","n","t","h","y","e","a","r">>,
      value |-> <<"Calculated using: DATE_TRUNC(expense_date, MONTH) AS formatted_expense_monthyear">>],
     [key |-> <<"a","d","_","e","x","p","e","n","s","e">>,
      value |-> <<"Directly selected from the source table using: SELECT ad_expense">>] >>
\* AdExpenseDataForLSTool.table_info["full_query"] (lines 166-194), the text line by line.
AdExpenseDataForLS_full_query ==
  << "\n",
     "            CREATE OR REPLACE TABLE ", BT, "the-pulse-405018.the_pulse.ad_expense_data_forLS", BT,
        "\n",
     "            CLUSTER BY ghl_location_id, ghl_location_name AS", "\n",
     "            SELECT", "\n",
     "                ghl_location_id,", "\n",
     "                ghl_location_name,", "\n",
     "                id,", "\n",
     "                ad_expense,", "\n",
     "                expense_monthyear,", "\n",
     "                expense_month,", "\n",
     "                expense_year,", "\n",
     "                converted_leads,", "\n",
     "                forecasted_revenue,", "\n",
     "                created_on,", "\n",
     "                updated_on,", "\n",
     "                PARSE_DATE(", "'", "%Y-%m-%d", "'", ",", "\n",
     "                    CONCAT(", "\n",
     "                        RIGHT(expense_monthyear, 4),", "\n",
     "                        ", "'", "-", "'", ",", "\n",
     "                        LPAD(", "\n",
     "                            FORMAT_DATE(", "'", "%m", "'", ", PARSE_DATE(", "'", "%B", "'",
        ", LEFT(expense_monthyear, LENGTH(expense_monthyear) - 5))),", "\n",
     "                            2,", "\n",
     "                            ", "'", "0", "'", "\n",
     "                        ),", "\n",
     "                        ", "'", "-01", "'", "\n",
     "                    )", "\n",
     "                ) AS formatted_expense_monthyear", "\n",
     "            FROM ", BT, "the-pulse-405018.the_pulse.ad_expense_data_bq", BT, "\n",
     "            " >>
\* AdExpenseDataForLSTool.table_info (lines 152-195): the dict, its keys in the order written.
AdExpenseDataForLS_table_info ==
  << [key |-> <<"n","a","m","e">>,
      value |-> [type |-> "str", val |-> <<"ad_expense_data_forLS">>]],
     [key |-> <<"d","e","s","c","r","i","p","t","i","o","n">>,
      value |-> [type |-> "str", val |-> <<"Provides information about ad expense data.">>]],
     [key |-> <<"f","i","e","l","d","s">>,
      value |-> [type |-> "dict", val |-> AdExpenseDataForLS_fields]],
     [key |-> <<"s","o","u","r","c","e","_","t","a","b","l","e">>,
      value |-> [type |-> "str", val |-> <<"the-pulse-405018.the_pulse.ad_expense_data">>]],
     [key |-> <<"p","a","r","t","i","t","i","o","n","i","n","g">>,
      value |-> [type |-> "str", val |-> <<"PARTITION BY formatted_expense_monthyear">>]],
     [key |-> <<"c","l","u","s","t","e","r","i","n","g">>,
      value |-> [type |-> "str", val |-> <<"CLUSTER BY ghl_location_id">>]],
     [key |-> <<"f","u","l","l","_","q","u","e","r","y">>,
      value |-> [type |-> "str", val |-> AdExpenseDataForLS_full_query]] >>

\* ReviewsForLSTool.table_info["fields"] (lines 220-247): field name -> provenance text.
ReviewsForLS_fields ==
  << [key |-> <<"i","d">>,
      value |-> <<"Directly selected from the source table using: SELECT id">>],
     [key |-> <<"g","h","l","_","l","o","c","a","t","i","o","n","_","n","a","m","e">>,
      value |-> <<"Directly selected from the source table using: SELECT ghl_location_name">>],
     [key |-> <<"g","h","l","_","l","o","c","a","t","i","o","n","_","i","d">>,
      value |-> <<"Directly selected from the source table using: SELECT ghl_location_id">>],
     [key |-> <<"c","o","m","m","e","n","t","s">>,
      value |-> <<"Directly selected from the source table using: SELECT comments">>],
     [key |-> <<"r","a","t","i","n","g">>,
      value |-> <<"Directly selected from the source table using: SELECT rating">>],
     [key |-> <<"r","e","v","i","e","w","e","r">>,
      value |-> <<"Directly selected from the source table using: SELECT reviewer">>],
     [key |-> <<"g","o","o","g","l","e","_","r","e","v","i","e","w","_","i","d">>,
      value |-> <<"Directly selected from the source table using: SELECT google_review_id">>],
     [key |-> <<"r","e","v","i","e","w","_","a","d","d","e","d","_","o","n">>,
      value |-> <<"Directly selected from the source table using: SELECT review_added_on">>],
     [key |-> <<"r","e","v","i","e","w","s","_","c","o","n","v","e","r","s","a","t","i","o","n">>,
      value |-> <<"Directly selected from the source table using: SELECT reviews_conversation">>],
     [key |-> <<"i","s","_","p","o","s","t","e","d","_","o","n","_","f","b">>,
      value |-> <<"Directly selected from the source table using: SELECT is_posted_on_fb">>],
     [key |-> <<"u","s","e","r","_","i","d">>,
      value |-> <<"Directly selected from the source table using: SELECT user_id">>],
     [key |-> <<"r","e","v","i","e","w","_","i","d">>,
      value |-> <<"Directly selected from the source table using: SELECT review_id">>],
     [key |-> <<"l","o","c","a","t","i","o","n","i","d">>,
      value |-> <<"Directly selected from the source table using: SELECT locationid">>],
     [key |-> <<"r","e","v","i","e","w","_","p","a","t","h">>,
      value |-> <<"Directly selected from the source table using: SELECT review_path">>],
     [key |-> <<"a","i","_","g","e","n","e","r","a","t","e","d","_","r","e","s","p","o","n","s","e">>,
      value |-> <<"Directly selected from the source table using: SELECT ai_generated_response">>],
     [key |-> <<"c","r","e","a","t","e","d","A","t">>,
      value |-> <<"Directly selected from the source table using: SELECT createdAt">>],
     [key |-> <<"u","p","d","a","t","e","d","A","t">>,
      value |-> <<"Directly selected from the source table using: SELECT updatedAt">>],
     [key |-> <<"p","o","s","t","e","d","_","o","n","_","f","b">>,
      value |-> <<"Directly selected from the source table using: SELECT posted_on_fb">>],
     [key |-> <<"p","o","s","t","e","d","_","o","n","_","i","n","s","t","a">>,
      value |-> <<"Directly selected from the source table using: SELECT posted_on_insta">>],
     [key |-> <<"p","o","s","t","e","d","_","o","n","_","o","t","h","e","r">>,
      value |-> <<"Directly selected from the source table using: SELECT posted_on_other">>],
     [key |-> <<"p","o","s","t","e","d","_","o","n","_","t","w","i","t","t","e","r">>,
      value |-> <<"Directly selected from the source table using: SELECT posted_on_twitter">>],
     [key |-> <<"e","m","a","i","l">>,
      value |-> <<"Directly selected from the source table using: SELECT email">>],
     [key |-> <<"f","i","v","e","_","s","t","a","r","_","r","a","t","i","n","g">>,
      value |-> <<"Calculated using: CASE WHEN rating = ", "\"", "FIVE", "\"",
                   " THEN 1 ELSE 0 END AS five_star_rating">>],
     [key |-> <<"o","n","e","_","t","o","_","f","o","u","r","_","s","t","a","r","_","r","a","t","i","n","g">>,
      value |-> <<"Calculated using: CASE WHEN (rating != ", "\"", "FIVE", "\"", " AND rating != ", "\"", "ZERO",
                   "\"", ") THEN 1 ELSE 0 END AS one_to_four_star_rating">>],
     [key |-> <<"r","a","t","i","n","g","_","2">>,
      value |-> <<"Calculated using: CASE WHEN rating = ", "\"", "FIVE", "\"", " THEN 5 WHEN rating = ", "\"", "FOUR",
                   "\"", " THEN 4 WHEN rating = ", "\"", "THREE", "\"", " THEN 3 WHEN rating = ", "\"", "TWO", "\"",
                   " THEN 2 WHEN rating = ", "\"", "ONE", "\"", " THEN 1 WHEN rating = ", "\"", "ZERO", "\"",
                   " THEN 0 ELSE NULL END AS rating_2">>],
     [key |-> <<"r","a","t","i","n","g","_","3">>,
      value |-> <<"Calculated using: CASE WHEN rating = ", "\"", "FIVE", "\"", " THEN ", "\"", "5 star reviews", "\"",
                   " ELSE ", "\"", "others", "\"", " END AS rating_3">>] >>
\* ReviewsForLSTool.table_info["full_query"] (lines 249-287), the text line by line.
ReviewsForLS_full_query ==
  << "\n",
     "            CREATE OR REPLACE TABLE ", BT, "the-pulse-405018.the_pulse.reviews_forLS", BT, " AS",
        "\n",
     "            SELECT", "\n",
     "                id,", "\n",
     "                ghl_location_name,", "\n",
     "                ghl_location_id,", "\n",
     "                comments,", "\n",
     "                rating,", "\n",
     "                reviewer,", "\n",
     "                google_review_id,", "\n",
     "                review_added_on,", "\n",
     "                reviews_conversation,", "\n",
     "                is_posted_on_fb,", "\n",
     "                user_id,", "\n",
     "                review_id,", "\n",
     "                locationid,", "\n",
     "                review_path,", "\n",
     "                ai_generated_response,", "\n",
     "                createdAt,", "\n",
     "                updatedAt,", "\n",
     "                posted_on_fb,", "\n",
     "                posted_on_insta,", "\n",
     "                posted_on_other,", "\n",
     "                posted_on_twitter,", "\n",
     "                email,", "\n",
     "                CASE WHEN rating = ", "\"", "FIVE", "\"",
        " THEN 1 ELSE 0 END AS five_star_rating,", "\n",
     "                CASE WHEN (rating != ", "\"", "FIVE", "\"", " AND rating != ", "\"", "ZERO", "\"",
        ") THEN 1 ELSE 0 END AS one_to_four_star_rating,", "\n",
     "                CASE", "\n",
     "                    WHEN rating = ", "\"", "FIVE", "\"", " THEN 5", "\n",
     "                    WHEN rating = ", "\"", "FOUR", "\"", " THEN 4", "\n",
     "                    WHEN rating = ", "\"", "THREE", "\"", " THEN 3", "\n",
     "                    WHEN rating = ", "\"", "TWO", "\"", " THEN 2", "\n",
     "                    WHEN rating = ", "\"", "ONE", "\"", " THEN 1", "\n",
     "                    WHEN rating = ", "\"", "ZERO", "\"", " THEN 0", "\n",
     "                    ELSE NULL", "\n",
     "                END AS rating_2,", "\n",
     "                CASE WHEN rating = ", "\"", "FIVE", "\"", " THEN ", "\"", "5 star reviews", "\"",
        " ELSE ", "\"", "others", "\"", " END AS rating_3", "\n",
     "            FROM ", BT, "the-pulse-405018.the_pulse.reviews_bq", BT, "\n",
     "            " >>
\* ReviewsForLSTool.table_info (lines 215-288): the dict, its keys in the order written.
ReviewsForLS_table_info ==
  << [key |-> <<"n","a","m","e">>,
      value |-> [type |-> "str", val |-> <<"reviews_forLS">>]],
     [key |-> <<"d","e","s","c","r","i","p","t","i","o","n">>,
      value |-> [type |-> "str", val |-> <<"Provides information about the structure and calculations in the reviews_forLS table.">>]],
     [key |-> <<"f","i","e","l","d","s">>,
      value |-> [type |-> "dict", val |-> ReviewsForLS_fields]],
     [key |-> <<"s","o","u","r","c","e","_","t","a","b","l","e">>,
      value |-> [type |-> "str", val |-> <<"the-pulse-405018.the_pulse.reviews_bq">>]],
     [key |-> <<"f","u","l","l","_","q","u","e","r","y">>,
      value |-> [type |-> "str", val |-> ReviewsForLS_full_query]] >>

\* AdExpenseDataMonthlyForLSTool.table_info["fields"] (lines 495-501): field name -> provenance text.
AdExpenseDataMonthlyForLS_fields ==
  << [key |-> <<"g","h","l","_","l","o","c","a","t","i","o","n","_","i","d">>,
      value |-> <<"Directly selected from the source table using: SELECT ghl_location_id">>],
     [key |-> <<"g","h","l","_","l","o","c","a","t","i","o","n","_","n","a","m","e">>,
      value |-> <<"Directly selected from the source table using: SELECT ghl_location_name">>],
     [key |-> <<"f","o","r","m","a","t","t","e","d","_","e","x","p","e","n","s","e","_","m","o","n","t","h","y","e","a","r">>,
      value |-> <<"Directly selected from the source table using: SELECT formatted_expense_monthyear">>],
     [key |-> <<"M","o","n","t","h">>,
      value |-> <<"Calculated using: 1, 3, 6, or 12 AS Month depending on the time period">>],
     [key |-> <<"a","d","_","e","x","p","e","n","s","e">>,
      value |-> <<"Calculated using: SUM(ad_expense) AS ad_expense">>] >>
\* AdExpenseDataMonthlyForLSTool.table_info["full_query"] (lines 512-566), the text line by line.
AdExpenseDataMonthlyForLS_full_query ==
  << "\n",
     "            CREATE OR REPLACE TABLE ", BT,
        "the-pulse-405018.the_pulse.ad_expense_data_monthly_forLS", BT, " AS", "\n",
     "            -- For the last month", "\n",
     "            SELECT", "\n",
     "                ghl_location_id,", "\n",
     "                ghl_location_name,", "\n",
     "                formatted_expense_monthyear,", "\n",
     "                1 AS Month, -- Last month", "\n",
     "                SUM(ad_expense) AS ad_expense", "\n",
     "            FROM ", BT, "the-pulse-405018.the_pulse.ad_expense_data_forLS", BT, "\n",
     "            WHERE DATE_TRUNC(formatted_expense_monthyear, MONTH) = DATE_TRUNC(DATE_SUB(CURRENT_DATE(), INTERVAL 1 MONTH), MONTH)",
        "\n",
     "            GROUP BY ghl_location_id, ghl_location_name, formatted_expense_monthyear", "\n",
     "\n",
     "            UNION ALL", "\n",
     "\n",
     "            -- For the last 3 months", "\n",
     "            SELECT", "\n",
     "                ghl_location_id,", "\n",
     "                ghl_location_name,", "\n",
     "                formatted_expense_monthyear,", "\n",
     "                3 AS Month, -- Last 3 months", "\n",
     "                SUM(ad_expense) AS ad_expense", "\n",
     "            FROM ", BT, "the-pulse-405018.the_pulse.ad_expense_data_forLS", BT, "\n",
     "            WHERE formatted_expense_monthyear >= DATE_TRUNC(DATE_SUB(CURRENT_DATE(), INTERVAL 3 MONTH), MONTH)",
        "\n",
     "              AND formatted_expense_monthyear < DATE_TRUNC(CURRENT_DATE(), MONTH)", "\n",
     "            GROUP BY ghl_location_id, ghl_location_name, formatted_expense_monthyear", "\n",
     "\n",
     "            UNION ALL", "\n",
     "\n",
     "            -- For the last 6 months", "\n",
     "            SELECT", "\n",
     "                ghl_location_id,", "\n",
     "                ghl_location_name,", "\n",
     "                formatted_expense_monthyear,", "\n",
     "                6 AS Month, -- Last 6 months", "\n",
     "                SUM(ad_expense) AS ad_expense", "\n",
     "            FROM ", BT, "the-pulse-405018.the_pulse.ad_expense_data_forLS", BT, "\n",
     "            WHERE formatted_expense_monthyear >= DATE_TRUNC(DATE_SUB(CURRENT_DATE(), INTERVAL 6 MONTH), MONTH)",
        "\n",
     "              AND formatted_expense_monthyear < DATE_TRUNC(CURRENT_DATE(), MONTH)", "\n",
     "            GROUP BY ghl_location_id, ghl_location_name, formatted_expense_monthyear", "\n",
     "\n",
     "            UNION ALL", "\n",
     "\n",
     "            -- For the last 12 months", "\n",
     "            SELECT", "\n",
     "                ghl_location_id,", "\n",
     "                ghl_location_name,", "\n",
     "                formatted_expense_monthyear,", "\n",
     "                12 AS Month, -- Last 12 months", "\n",
     "                SUM(ad_expense) AS ad_expense", "\n",
     "            FROM ", BT, "the-pulse-405018.the_pulse.ad_expense_data_forLS", BT, "\n",
     "            WHERE formatted_expense_monthyear >= DATE_TRUNC(DATE_SUB(CURRENT_DATE(), INTERVAL 12 MONTH), MONTH)",
        "\n",
     "              AND formatted_expense_monthyear < DATE_TRUNC(CURRENT_DATE(), MONTH)", "\n",
     "            GROUP BY ghl_location_id, ghl_location_name, formatted_expense_monthyear", "\n",
     "            " >>
\* AdExpenseDataMonthlyForLSTool.table_info (lines 490-567): the dict, its keys in the order written.
AdExpenseDataMonthlyForLS_table_info ==
  << [key |-> <<"n","a","m","e">>,
      value |-> [type |-> "str", val |-> <<"ad_expense_data_monthly_forLS">>]],
     [key |-> <<"d","e","s","c","r","i","p","t","i","o","n">>,
      value |-> [type |-> "str", val |-> <<"Provides information about the structure and calculations in the ad_expense_data_monthly_forLS table.">>]],
     [key |-> <<"f","i","e","l","d","s">>,
      value |-> [type |-> "dict", val |-> AdExpenseDataMonthlyForLS_fields]],
     [key |-> <<"s","o","u","r","c","e","_","t","a","b","l","e">>,
      value |-> [type |-> "str", val |-> <<"the-pulse-405018.the_pulse.ad_expense_data_forLS">>]],
     [key |-> <<"t","i","m","e","_","p","e","r","i","o","d","s">>,
      value |-> [type |-> "list", val |->
          << <<"Last 1 month", ": WHERE DATE_TRUNC(formatted_expense_monthyear, MONTH) = DATE_TRUNC(DATE_SUB(CURRENT_DATE(), INTERVAL 1 MONTH), MONTH)">>,
             <<"Last 3 months", ": WHERE formatted_expense_monthyear >= DATE_TRUNC(DATE_SUB(CURRENT_DATE(), INTERVAL 3 MONTH), MONTH) AND formatted_expense_monthyear < DATE_TRUNC(CURRENT_DATE(), MONTH)">>,
             <<"Last 6 months", ": WHERE formatted_expense_monthyear >= DATE_TRUNC(DATE_SUB(CURRENT_DATE(), INTERVAL 6 MONTH), MONTH) AND formatted_expense_monthyear < DATE_TRUNC(CURRENT_DATE(), MONTH)">>,
             <<"Last 12 months", ": WHERE formatted_expense_monthyear >= DATE_TRUNC(DATE_SUB(CURRENT_DATE(), INTERVAL 12 MONTH), MONTH) AND formatted_expense_monthyear < DATE_TRUNC(CURRENT_DATE(), MONTH)">> >>]],
     [key |-> <<"g","r","o","u","p","i","n","g">>,
      value |-> [type |-> "str", val |-> <<"GROUP BY ghl_location_id, ghl_location_name, formatted_expense_monthyear">>]],
     [key |-> <<"p","a","r","t","i","t","i","o","n","i","n","g">>,
      value |-> [type |-> "str", val |-> <<"none">>]],
     [key |-> <<"c","l","u","s","t","e","r","i","n","g">>,
      value |-> [type |-> "str", val |-> <<"none">>]],
     [key |-> <<"f","u","l","l","_","q","u","e","r","y">>,
      value |-> [type |-> "str", val |-> AdExpenseDataMonthlyForLS_full_query]] >>

\* OpportunitiesMonthlyForLSTool.table_info["fields"] (lines 596-607): field name -> provenance text.
OpportunitiesMonthlyForLS_fields ==
  << [key |-> <<"g","h","l","_","l","o","c","a","t","i","o","n","_","i","d">>,
      value |-> <<"Directly selected from the source table using: SELECT ghl_location_id">>],
     [key |-> <<"g","h","l","_","l","o","c","a","t","i","o","n","_","n","a","m","e">>,
      value |-> <<"Directly selected from the source table using: SELECT ghl_location_name">>],
     [key |-> <<"o","p","p","o","r","t","u","n","i","t","y","_","c","r","e","a","t","e","d","_","d","a","t","e">>,
      value |-> <<"Directly selected from the source table using: SELECT opportunity_created_date">>],
     [key |-> <<"M","o","n","t","h">>,
      value |-> <<"Calculated using: 1, 3, 6, or 12 AS Month depending on the time period">>],
     [key |-> <<"L","e","a","d","s">>,
      value |-> <<"Calculated using: SUM(Leads) AS Leads">>],
     [key |-> <<"Q","u","a","l","i","f","i","e","d">>,
      value |-> <<"Calculated using: SUM(Qualified) AS Qualified">>],
     [key |-> <<"R","e","t","a","i","n","e","d">>,
      value |-> <<"Calculated using: SUM(Retained) AS Retained">>],
     [key |-> <<"L","o","s","t">>,
      value |-> <<"Calculated using: SUM(Lost) AS Lost">>],
     [key |-> <<"S","i","g","n","e","d","_","C","a","s","e","s">>,
      value |-> <<"Calculated using: SUM(Signed_Cases) AS Signed_Cases">>],
     [key |-> <<"R","e","v","e","n","u","e">>,
      value |-> <<"Calculated using: SUM(Revenue) AS Revenue">>] >>
\* OpportunitiesMonthlyForLSTool.table_info["full_query"] (lines 618-688), the text line by line.
OpportunitiesMonthlyForLS_full_query ==
  << "\n",
     "            CREATE OR REPLACE TABLE ", BT,
        "the-pulse-405018.the_pulse.opportunities_monthly_forLS", BT, " AS", "\n",
     "            SELECT", "\n",
     "                ghl_location_id,", "\n",
     "                ghl_location_name,", "\n",
     "                opportunity_created_date,", "\n",
     "                1 AS Month, -- Last month", "\n",
     "                SUM(Leads) AS Leads,", "\n",
     "                SUM(Qualified) AS Qualified,", "\n",
     "                SUM(Retained) AS Retained,", "\n",
     "                SUM(Lost) AS Lost,", "\n",
     "                SUM(Signed_Cases) AS Signed_Cases,", "\n",
     "                SUM(Revenue) AS Revenue", "\n",
     "            FROM ", BT, "the-pulse-405018.the_pulse.opportunities_forLS", BT, "\n",
     "            WHERE DATE_TRUNC(opportunity_created_date, MONTH) = DATE_TRUNC(DATE_SUB(CURRENT_DATE(), INTERVAL 1 MONTH), MONTH)",
        "\n",
     "            GROUP BY ghl_location_id, ghl_location_name, opportunity_created_date", "\n",
     "\n",
     "            UNION ALL", "\n",
     "\n",
     "            SELECT", "\n",
     "                ghl_location_id,", "\n",
     "                ghl_location_name,", "\n",
     "                opportunity_created_date,", "\n",
     "                3 AS Month, -- Last 3 months", "\n",
     "                SUM(Leads) AS Leads,", "\n",
     "                SUM(Qualified) AS Qualified,", "\n",
     "                SUM(Retained) AS Retained,", "\n",
     "                SUM(Lost) AS Lost,", "\n",
     "                SUM(Signed_Cases) AS Signed_Cases,", "\n",
     "                SUM(Revenue) AS Revenue", "\n",
     "            FROM ", BT, "the-pulse-405018.the_pulse.opportunities_forLS", BT, "\n",
     "            WHERE opportunity_created_date >= DATE_TRUNC(DATE_SUB(CURRENT_DATE(), INTERVAL 3 MONTH), MONTH)",
        "\n",
     "              AND opportunity_created_date < DATE_TRUNC(CURRENT_DATE(), MONTH)", "\n",
     "            GROUP BY ghl_location_id, ghl_location_name, opportunity_created_date", "\n",
     "\n",
     "            UNION ALL", "\n",
     "\n",
     "            SELECT", "\n",
     "                ghl_location_id,", "\n",
     "                ghl_location_name,", "\n",
     "                opportunity_created_date,", "\n",
     "                6 AS Month, -- Last 6 months", "\n",
     "                SUM(Leads) AS Leads,", "\n",
     "                SUM(Qualified) AS Qualified,", "\n",
     "                SUM(Retained) AS Retained,", "\n",
     "                SUM(Lost) AS Lost,", "\n",
     "                SUM(Signed_Cases) AS Signed_Cases,", "\n",
     "                SUM(Revenue) AS Revenue", "\n",
     "            FROM ", BT, "the-pulse-405018.the_pulse.opportunities_forLS", BT, "\n",
     "            WHERE opportunity_created_date >= DATE_TRUNC(DATE_SUB(CURRENT_DATE(), INTERVAL 6 MONTH), MONTH)",
        "\n",
     "              AND opportunity_created_date < DATE_TRUNC(CURRENT_DATE(), MONTH)", "\n",
     "            GROUP BY ghl_location_id, ghl_location_name, opportunity_created_date", "\n",
     "\n",
     "            UNION ALL", "\n",
     "\n",
     "            SELECT", "\n",
     "                ghl_location_id,", "\n",
     "                ghl_location_name,", "\n",
     "                opportunity_created_date,", "\n",
     "                12 AS Month, -- Last 12 months", "\n",
     "                SUM(Leads) AS Leads,", "\n",
     "                SUM(Qualified) AS Qualified,", "\n",
     "                SUM(Retained) AS Retained,", "\n",
     "                SUM(Lost) AS Lost,", "\n",
     "                SUM(Signed_Cases) AS Signed_Cases,", "\n",
     "                SUM(Revenue) AS Revenue", "\n",
     "            FROM ", BT, "the-pulse-405018.the_pulse.opportunities_forLS", BT, "\n",
     "            WHERE opportunity_created_date >= DATE_TRUNC(DATE_SUB(CURRENT_DATE(), INTERVAL 12 MONTH), MONTH)",
        "\n",
     "              AND opportunity_created_date < DATE_TRUNC(CURRENT_DATE(), MONTH)", "\n",
     "            GROUP BY ghl_location_id, ghl_location_name, opportunity_created_date", "\n",
     "            " >>
\* OpportunitiesMonthlyForLSTool.table_info (lines 591-689): the dict, its keys in the order written.
OpportunitiesMonthlyForLS_table_info ==
  << [key |-> <<"n","a","m","e">>,
      value |-> [type |-> "str", val |-> <<"opportunities_monthly_forLS">>]],
     [key |-> <<"d","e","s","c","r","i","p","t","i","o","n">>,
      value |-> [type |-> "str", val |-> <<"Provides information about the structure and calculations in the opportunities_monthly_forLS table.">>]],
     [key |-> <<"f","i","e","l","d","s">>,
      value |-> [type |-> "dict", val |-> OpportunitiesMonthlyForLS_fields]],
     [key |-> <<"s","o","u","r","c","e","_","t","a","b","l","e">>,
      value |-> [type |-> "str", val |-> <<"the-pulse-405018.the_pulse.opportunities_forLS">>]],
     [key |-> <<"t","i","m","e","_","p","e","r","i","o","d","s">>,
      value |-> [type |-> "list", val |->
          << <<"Last 1 month", ": WHERE DATE_TRUNC(opportunity_created_date, MONTH) = DATE_TRUNC(DATE_SUB(CURRENT_DATE(), INTERVAL 1 MONTH), MONTH)">>,
             <<"Last 3 months", ": WHERE opportunity_created_date >= DATE_TRUNC(DATE_SUB(CURRENT_DATE(), INTERVAL 3 MONTH), MONTH) AND opportunity_created_date < DATE_TRUNC(CURRENT_DATE(), MONTH)">>,
             <<"Last 6 months", ": WHERE opportunity_created_date >= DATE_TRUNC(DATE_SUB(CURRENT_DATE(), INTERVAL 6 MONTH), MONTH) AND opportunity_created_date < DATE_TRUNC(CURRENT_DATE(), MONTH)">>,
             <<"Last 12 months", ": WHERE opportunity_created_date >= DATE_TRUNC(DATE_SUB(CURRENT_DATE(), INTERVAL 12 MONTH), MONTH) AND opportunity_created_date < DATE_TRUNC(CURRENT_DATE(), MONTH)">> >>]],
     [key |-> <<"g","r","o","u","p","i","n","g">>,
      value |-> [type |-> "str", val |-> <<"GROUP BY ghl_location_id, ghl_location_name, opportunity_created_date">>]],
     [key |-> <<"p","a","r","t","i","t","i","o","n","i","n","g">>,
      value |-> [type |-> "str", val |-> <<"none">>]],
     [key |-> <<"c","l","u","s","t","e","r","i","n","g">>,
      value |-> [type |-> "str", val |-> <<"none">>]],
     [key |-> <<"f","u","l","l","_","q","u","e","r","y">>,
      value |-> [type |-> "str", val |-> OpportunitiesMonthlyForLS_full_query]] >>

\* CallsMonthlyForLSTool.table_info["fields"] (lines 721-728): field name -> provenance text.
CallsMonthlyForLS_fields ==
  << [key |-> <<"g","h","l","_","l","o","c","a","t","i","o","n","_","i","d">>,
      value |-> <<"Directly selected from the source table using: SELECT ghl_location_id">>],
     [key |-> <<"g","h","l","_","l","o","c","a","t","i","o","n","_","n","a","m","e">>,
      value |-> <<"Directly selected from the source table using: SELECT ghl_location_name">>],
     [key |-> <<"c","a","l","l","_","d","a","t","e">>,
      value |-> <<"Directly selected from the source table using: SELECT call_date">>],
     [key |-> <<"M","o","n","t","h">>,
      value |-> <<"Calculated using: 1, 3, 6, or 12 AS Month depending on the time period">>],
     [key |-> <<"T","o","t","a","l","_","C","a","l","l","s">>,
      value |-> <<"Calculated using: SUM(Total_Calls) AS Total_Calls">>],
     [key |-> <<"A","n","s","w","e","r","e","d","_","C","a","l","l","s">>,
      value |-> <<"Calculated using: SUM(Answered_Calls) AS Answered_Calls">>] >>
\* CallsMonthlyForLSTool.table_info["full_query"] (lines 739-795), the text line by line.
CallsMonthlyForLS_full_query ==
  << "\n",
     "            CREATE OR REPLACE TABLE ", BT, "the-pulse-405018.the_pulse.calls_monthly_forLS", BT,
        " AS", "\n",
     "            -- For the last month", "\n",
     "            SELECT", "\n",
     "                ghl_location_id,", "\n",
     "                ghl_location_name,", "\n",
     "                call_date,", "\n",
     "                1 AS Month, -- Last month", "\n",
     "                SUM(Total_Calls) AS Total_Calls,", "\n",
     "                SUM(Answered_Calls) AS Answered_Calls", "\n",
     "            FROM ", BT, "the-pulse-405018.the_pulse.calls_forLS", BT, "\n",
     "            WHERE DATE_TRUNC(call_date, MONTH) = DATE_TRUNC(DATE_SUB(CURRENT_DATE(), INTERVAL 1 MONTH), MONTH)",
        "\n",
     "            GROUP BY ghl_location_id, ghl_location_name, call_date", "\n",
     "\n",
     "            UNION ALL", "\n",
     "\n",
     "            -- For the last 3 months", "\n",
     "            SELECT", "\n",
     "                ghl_location_id,", "\n",
     "                ghl_location_name,", "\n",
     "                call_date,", "\n",
     "                3 AS Month, -- Last 3 months", "\n",
     "                SUM(Total_Calls) AS Total_Calls,", "\n",
     "                SUM(Answered_Calls) AS Answered_Calls", "\n",
     "            FROM ", BT, "the-pulse-405018.the_pulse.calls_forLS", BT, "\n",
     "            WHERE call_date >= DATE_TRUNC(DATE_SUB(CURRENT_DATE(), INTERVAL 3 MONTH), MONTH)", "\n",
     "              AND call_date < DATE_TRUNC(CURRENT_DATE(), MONTH)", "\n",
     "            GROUP BY ghl_location_id, ghl_location_name, call_date", "\n",
     "\n",
     "            UNION ALL", "\n",
     "\n",
     "            SELECT", "\n",
     "                ghl_location_id,", "\n",
     "                ghl_location_name,", "\n",
     "                call_date,", "\n",
     "                6 AS Month, -- Last 6 months", "\n",
     "                SUM(Total_Calls) AS Total_Calls,", "\n",
     "                SUM(Answered_Calls) AS Answered_Calls", "\n",
     "            FROM ", BT, "the-pulse-405018.the_pulse.calls_forLS", BT, "\n",
     "            WHERE call_date >= DATE_TRUNC(DATE_SUB(CURRENT_DATE(), INTERVAL 6 MONTH), MONTH)", "\n",
     "              AND call_date < DATE_TRUNC(CURRENT_DATE(), MONTH)", "\n",
     "            GROUP BY ghl_location_id, ghl_location_name, call_date", "\n",
     "\n",
     "            UNION ALL", "\n",
     "\n",
     "            SELECT", "\n",
     "                ghl_location_id,", "\n",
     "                ghl_location_name,", "\n",
     "                call_date,", "\n",
     "                12 AS Month, -- Last 12 months", "\n",
     "                SUM(Total_Calls) AS Total_Calls,", "\n",
     "                SUM(Answered_Calls) AS Answered_Calls", "\n",
     "            FROM ", BT, "the-pulse-405018.the_pulse.calls_forLS", BT, "\n",
     "            WHERE call_date >= DATE_TRUNC(DATE_SUB(CURRENT_DATE(), INTERVAL 12 MONTH), MONTH)",
        "\n",
     "              AND call_date < DATE_TRUNC(CURRENT_DATE(), MONTH)", "\n",
     "            GROUP BY ghl_location_id, ghl_location_name, call_date", "\n",
     "            " >>
\* CallsMonthlyForLSTool.table_info (lines 716-796): the dict, its keys in the order written.
CallsMonthlyForLS_table_info ==
  << [key |-> <<"n","a","m","e">>,
      value |-> [type |-> "str", val |-> <<"calls_monthly_forLS">>]],
     [key |-> <<"d","e","s","c","r","i","p","t","i","o","n">>,
      value |-> [type |-> "str", val |-> <<"Provides information about the structure and calculations in the calls_monthly_forLS table.">>]],
     [key |-> <<"f","i","e","l","d","s">>,
      value |-> [type |-> "dict", val |-> CallsMonthlyForLS_fields]],
     [key |-> <<"s","o","u","r","c","e","_","t","a","b","l","e">>,
      value |-> [type |-> "str", val |-> <<"the-pulse-405018.the_pulse.calls_forLS">>]],
     [key |-> <<"t","i","m","e","_","p","e","r","i","o","d","s">>,
      value |-> [type |-> "list", val |->
          << <<"Last 1 month", ": WHERE DATE_TRUNC(call_date, MONTH) = DATE_TRUNC(DATE_SUB(CURRENT_DATE(), INTERVAL 1 MONTH), MONTH)">>,
             <<"Last 3 months", ": WHERE call_date >= DATE_TRUNC(DATE_SUB(CURRENT_DATE(), INTERVAL 3 MONTH), MONTH) AND call_date < DATE_TRUNC(CURRENT_DATE(), MONTH)">>,
             <<"Last 6 months", ": WHERE call_date >= DATE_TRUNC(DATE_SUB(CURRENT_DATE(), INTERVAL 6 MONTH), MONTH) AND call_date < DATE_TRUNC(CURRENT_DATE(), MONTH)">>,
             <<"Last 12 months", ": WHERE call_date >= DATE_TRUNC(DATE_SUB(CURRENT_DATE(), INTERVAL 12 MONTH), MONTH) AND call_date < DATE_TRUNC(CURRENT_DATE(), MONTH)">> >>]],
     [key |-> <<"g","r","o","u","p","i","n","g">>,
      value |-> [type |-> "str", val |-> <<"GROUP BY ghl_location_id, ghl_location_name, call_date">>]],
     [key |-> <<"p","a","r","t","i","t","i","o","n","i","n","g">>,
      value |-> [type |-> "str", val |-> <<"none">>]],
     [key |-> <<"c","l","u","s","t","e","r","i","n","g">>,
      value |-> [type |-> "str", val |-> <<"none">>]],
     [key |-> <<"f","u","l","l","_","q","u","e","r","y">>,
      value |-> [type |-> "str", val |-> CallsMonthlyForLS_full_query]] >>

---------------------------------------------------------------------------
(* The providers' lookups                                                  *)

S_structure    == <<"s","t","r","u","c","t","u","r","e">>
S_fields       == <<"f","i","e","l","d","s">>
S_clustering   == <<"c","l","u","s","t","e","r","i","n","g">>
S_partitioning == <<"p","a","r","t","i","t","i","o","n","i","n","g">>
S_grouping     == <<"g","r","o","u","p","i","n","g">>
S_full_query   == <<"f","u","l","l","_","q","u","e","r","y">>
S_time_periods == <<"t","i","m","e","_","p","e","r","i","o","d","s">>
S_source_table == <<"s","o","u","r","c","e","_","t","a","b","l","e">>

\* self.table_info[key]: the value, or KeyError(key), whose str() is repr(key).
table_info_get(info, key) ==
  IF dict_has(info, key) THEN Returned(dict_get(info, key))
  ELSE Raised(repr_str(key))

\* query in self.table_info["fields"]
in_fields(info, query) == dict_has(dict_get(info, S_fields).val, query)

\* return f"Field '{query}': {self.table_info['fields'][query]}"
field_answer(info, query) ==
  Returned(<<"Field ", "'">> \o query \o <<"'", ": ">>
           \o dict_get(dict_get(info, S_fields).val, query))

\* return f"{query.capitalize()}: {self.table_info[query]}"
attribute_answer(info, query) ==
  LET got == table_info_get(info, query)
  IN IF got.raised THEN got
     ELSE Returned(str_capitalize(query) \o <<": ">> \o str_value(got.value))

\* return f"<label>{self.table_info[key]}"
labelled_answer(label, info, key) ==
  LET got == table_info_get(info, key)
  IN IF got.raised THEN got
     ELSE Returned(<<label>> \o str_value(got.value))

\* A lookup miss that raises KeyError(query) instead.
no_information_raises(query) == Raised(repr_str(query))

\* return f"No information found for query: {query}"
no_information(query) == Returned(<<"No information found for query: ">> \o query)

\* CallsForLSTool._run with the attribute list of the monthly providers.
CallsForLS_run_with_time_periods(query0) ==
  LET query == str_lower(query0)
      info == CallsForLS_table_info
  IN IF query = S_structure THEN Returned(str_table_info(info))
     ELSE IF in_fields(info, query) THEN field_answer(info, query)
     ELSE IF query \in {S_clustering, S_partitioning, S_grouping, S_full_query,
                        S_time_periods}
       THEN attribute_answer(info, query)
     ELSE IF query = S_source_table
       THEN labelled_answer("Source Table: ", info, S_source_table)
     ELSE no_information(query)

\* CallsForLSTool._run, of the class as bound at setup_agent: the second
\* `class CallsForLSTool` (line 304) rebinds the name of the first (line 99).
CallsForLS_run(query0) ==
  LET query == str_lower(query0)
      info == CallsForLS_table_info
  IN IF query = S_structure THEN Returned(str_table_info(info))
     ELSE IF in_fields(info, query) THEN field_answer(info, query)
     ELSE IF query \in {S_clustering, S_partitioning, S_grouping, S_full_query}
       THEN attribute_answer(info, query)
     ELSE IF query = S_source_table
       THEN labelled_answer("Source Table: ", info, S_source_table)
     ELSE no_information(query)

\* OpportunitiesForLSTool._run
OpportunitiesForLS_run(query0) ==
  LET query == str_lower(query0)
      info == OpportunitiesForLS_table_info
  IN IF query = S_structure THEN Returned(str_table_info(info))
     ELSE IF in_fields(info, query) THEN field_answer(info, query)
     ELSE IF query \in {S_clustering, S_partitioning, S_grouping, S_full_query}
       THEN attribute_answer(info, query)
     ELSE IF query = S_source_table
       THEN labelled_answer("Source Table: ", info, S_source_table)
     ELSE no_information(query)

\* AdExpenseDataForLSTool._run
AdExpenseDataForLS_run(query0) ==
  LET query == str_lower(query0)
      info == AdExpenseDataForLS_table_info
  IN IF query = S_structure THEN Returned(str_table_info(info))
     ELSE IF in_fields(info, query) THEN field_answer(info, query)
     ELSE no_information(query)

\* ReviewsForLSTool._run
ReviewsForLS_run(query0) ==
  LET query == str_lower(query0)
      info == ReviewsForLS_table_info
  IN IF query = S_structure THEN Returned(str_table_info(info))
     ELSE IF in_fields(info, query) THEN field_answer(info, query)
     ELSE no_information(query)

\* AdExpenseDataMonthlyForLSTool._run
AdExpenseDataMonthlyForLS_run(query0) ==
  LET query == str_lower(query0)
      info == AdExpenseDataMonthlyForLS_table_info
  IN IF query = S_structure THEN Returned(str_table_info(info))
     ELSE IF in_fields(info, query) THEN field_answer(info, query)
     ELSE IF query \in {S_clustering, S_partitioning, S_grouping, S_full_query,
                        S_time_periods}
       THEN attribute_answer(info, query)
     ELSE IF query = S_source_table
       THEN labelled_answer("Source Table: ", info, S_source_table)
     ELSE no_information(query)

\* OpportunitiesMonthlyForLSTool._run
OpportunitiesMonthlyForLS_run(query0) ==
  LET query == str_lower(query0)
      info == OpportunitiesMonthlyForLS_table_info
  IN IF query = S_structure THEN Returned(str_table_info(info))
     ELSE IF in_fields(info, query) THEN field_answer(info, query)
     ELSE IF query = S_time_periods
       THEN labelled_answer("Time Periods: ", info, S_time_periods)
     ELSE IF query = S_grouping
       THEN labelled_answer("Grouping: ", info, S_grouping)
     ELSE IF query = S_full_query
       THEN labelled_answer("Full Query: ", info, S_full_query)
     ELSE no_information(query)

\* CallsMonthlyForLSTool._run
CallsMonthlyForLS_run(query0) ==
  LET query == str_lower(query0)
      info == CallsMonthlyForLS_table_info
  IN IF query = S_structure THEN Returned(str_table_info(info))
     ELSE IF in_fields(info, query) THEN field_answer(info, query)
     ELSE IF query = S_time_periods
       THEN labelled_answer("Time Periods: ", info, S_time_periods)
     ELSE IF query = S_grouping
       THEN labelled_answer("Grouping: ", info, S_grouping)
     ELSE IF query = S_full_query
       THEN labelled_answer("Full Query: ", info, S_full_query)
     ELSE no_information(query)

\* DataSchemaRoadmapTool.schema_map (lines 39-68): table identifier ->
\* description and field list, the entries in the order written.
schema_map ==
  << [key |-> <<"t","h","e","_","p","u","l","s","e",".","r","e","v","i","e","w","s","_","f","o","r","L","S">>,
      value |-> [description |-> <<"Contains detailed review information">>,
                fields |->
                  << <<"i","d">>,
                     <<"g","h","l","_","l","o","c","a","t","i","o","n","_","n","a","m","e">>,
                     <<"g","h","l","_","l","o","c","a","t","i","o","n","_","i","d">>,
                     <<"c","o","m","m","e","n","t","s">>,
                     <<"r","a","t","i","n","g">>,
                     <<"r","e","v","i","e","w","e","r">>,
                     <<"g","o","o","g","l","e","_","r","e","v","i","e","w","_","i","d">>,
                     <<"r","e","v","i","e","w","_","a","d","d","e","d","_","o","n">>,
                     <<"r","e","v","i","e","w","s","_","c","o","n","v","e","r","s","a","t","i","o","n">>,
                     <<"i","s","_","p","o","s","t","e","d","_","o","n","_","f","b">>,
                     <<"u","s","e","r","_","i","d">>,
                     <<"r","e","v","i","e","w","_","i","d">>,
                     <<"l","o","c","a","t","i","o","n","i","d">>,
                     <<"r","e","v","i","e","w","_","p","a","t","h">>,
                     <<"a","i","_","g","e","n","e","r","a","t","e","d","_","r","e","s","p","o","n","s","e">>,
                     <<"c","r","e","a","t","e","d","A","t">>,
                     <<"u","p","d","a","t","e","d","A","t">>,
                     <<"p","o","s","t","e","d","_","o","n","_","f","b">>,
                     <<"p","o","s","t","e","d","_","o","n","_","i","n","s","t","a">>,
                     <<"p","o","s","t","e","d","_","o","n","_","o","t","h","e","r">>,
                     <<"p","o","s","t","e","d","_","o","n","_","t","w","i","t","t","e","r">>,
                     <<"e","m","a","i","l">>,
                     <<"f","i","v","e","_","s","t","a","r","_","r","a","t","i","n","g">>,
                     <<"o","n","e","_","t","o","_","f","o","u","r","_","s","t","a","r","_","r","a","t","i","n","g">>,
                     <<"r","a","t","i","n","g","_","2">>,
                     <<"r","a","t","i","n","g","_","3">> >>]],
     [key |-> <<"t","h","e","_","p","u","l","s","e",".","o","p","p","o","r","t","u","n","i","t","i","e","s","_","m","o","n","t","h","l","y","_","f","o","r","L","S">>,
      value |-> [description |-> <<"Monthly aggregated data on sales opportunities">>,
                fields |->
                  << <<"g","h","l","_","l","o","c","a","t","i","o","n","_","i","d">>,
                     <<"g","h","l","_","l","o","c","a","t","i","o","n","_","n","a","m","e">>,
                     <<"o","p","p","o","r","t","u","n","i","t","y","_","c","r","e","a","t","e","d","_","d","a","t","e">>,
                     <<"M","o","n","t","h">>,
                     <<"L","e","a","d","s">>,
                     <<"Q","u","a","l","i","f","i","e","d">>,
                     <<"R","e","t","a","i","n","e","d">>,
                     <<"L","o","s","t">>,
                     <<"S","i","g","n","e","d","_","C","a","s","e","s">>,
                     <<"R","e","v","e","n","u","e">> >>]],
     [key |-> <<"t","h","e","_","p","u","l","s","e",".","c","a","l","l","s","_","m","o","n","t","h","l","y","_","f","o","r","L","S">>,
      value |-> [description |-> <<"Monthly aggregated call data">>,
                fields |->
                  << <<"g","h","l","_","l","o","c","a","t","i","o","n","_","i","d">>,
                     <<"g","h","l","_","l","o","c","a","t","i","o","n","_","n","a","m","e">>,
                     <<"c","a","l","l","_","d","a","t","e">>,
                     <<"M","o","n","t","h">>,
                     <<"T","o","t","a","l","_","C","a","l","l","s">>,
                     <<"A","n","s","w","e","r","e","d","_","C","a","l","l","s">> >>]],
     [key |-> <<"t","h","e","_","p","u","l","s","e",".","c","a","l","l","s","_","f","o","r","L","S">>,
      value |-> [description |-> <<"Detailed call data">>,
                fields |->
                  << <<"g","h","l","_","l","o","c","a","t","i","o","n","_","i","d">>,
                     <<"g","h","l","_","l","o","c","a","t","i","o","n","_","n","a","m","e">>,
                     <<"c","a","l","l","_","d","a","t","e">>,
                     <<"T","o","t","a","l","_","C","a","l","l","s">>,
                     <<"A","n","s","w","e","r","e","d","_","C","a","l","l","s">>,
                     <<"M","i","s","s","e","d","_","C","a","l","l","s">> >>]],
     [key |-> <<"t","h","e","_","p","u","l","s","e",".","a","d","_","e","x","p","e","n","s","e","_","d","a","t","a","_","m","o","n","t","h","l","y","_","f","o","r","L","S">>,
      value |-> [description |-> <<"Monthly aggregated ad expense data">>,
                fields |->
                  << <<"g","h","l","_","l","o","c","a","t","i","o","n","_","i","d">>,
                     <<"g","h","l","_","l","o","c","a","t","i","o","n","_","n","a","m","e">>,
                     <<"f","o","r","m","a","t","t","e","d","_","e","x","p","e","n","s","e","_","m","o","n","t","h","y","e","a","r">>,
                     <<"M","o","n","t","h">>,
                     <<"a","d","_","e","x","p","e","n","s","e">> >>]],
     [key |-> <<"t","h","e","_","p","u","l","s","e",".","a","d","_","e","x","p","e","n","s","e","_","d","a","t","a","_","f","o","r","L","S">>,
      value |-> [description |-> <<"Detailed ad expense data">>,
                fields |->
                  << <<"g","h","l","_","l","o","c","a","t","i","o","n","_","i","d">>,
                     <<"g","h","l","_","l","o","c","a","t","i","o","n","_","n","a","m","e">>,
                     <<"i","d">>,
                     <<"a","d","_","e","x","p","e","n","s","e">>,
                     <<"e","x","p","e","n","s","e","_","m","o","n","t","h","y","e","a","r">>,
                     <<"e","x","p","e","n","s","e","_","m","o","n","t","h">>,
                     <<"e","x","p","e","n","s","e","_","y","e","a","r">>,
                     <<"c","o","n","v","e","r","t","e","d","_","l","e","a","d","s">>,
                     <<"f","o","r","e","c","a","s","t","e","d","_","r","e","v","e","n","u","e">>,
                     <<"c","r","e","a","t","e","d","_","o","n">>,
                     <<"u","p","d","a","t","e","d","_","o","n">>,
                     <<"f","o","r","m","a","t","t","e","d","_","e","x","p","e","n","s","e","_","m","o","n","t","h","y","e","a","r">> >>]],
     [key |-> <<"t","h","e","_","p","u","l","s","e",".","o","p","p","o","r","t","u","n","i","t","i","e","s","_","f","o","r","L","S">>,
      value |-> [description |-> <<"Detailed information on sales opportunities">>,
                fields |->
                  << <<"g","h","l","_","l","o","c","a","t","i","o","n","_","i","d">>,
                     <<"g","h","l","_","l","o","c","a","t","i","o","n","_","n","a","m","e">>,
                     <<"c","o","n","t","a","c","t","_","i","d">>,
                     <<"c","o","n","t","a","c","t","_","e","m","a","i","l">>,
                     <<"c","o","n","t","a","c","t","_","t","a","g","s">>,
                     <<"o","p","p","o","r","t","u","n","i","t","y","_","c","r","e","a","t","e","d","_","d","a","t","e">>,
                     <<"o","p","p","o","r","t","u","n","i","t","y","_","i","d">>,
                     <<"L","e","a","d","s">>,
                     <<"Q","u","a","l","i","f","i","e","d">>,
                     <<"R","e","t","a","i","n","e","d">>,
                     <<"O","p","e","n","_","1">>,
                     <<"L","o","s","t">>,
                     <<"S","i","g","n","e","d","_","C","a","s","e","s">>,
                     <<"o","p","p","o","r","t","u","n","i","t","y","_","p","i","p","e","l","i","n","e","_","n","a","m","e">>,
                     <<"o","p","p","o","r","t","u","n","i","t","y","_","p","i","p","e","l","i","n","e","_","i","d">>,
                     <<"o","p","p","o","r","t","u","n","i","t","y","_","s","t","a","g","e","_","n","a","m","e">>,
                     <<"o","p","p","o","r","t","u","n","i","t","y","_","s","t","a","g","e","_","i","d">>,
                     <<"o","p","p","o","r","t","u","n","i","t","y","_","s","o","u","r","c","e">>,
                     <<"R","e","v","e","n","u","e">>,
                     <<"S","t","a","t","u","s">>,
                     <<"o","p","p","o","r","t","u","n","i","t","y","_","a","s","s","i","g","n","e","d","_","u","s","e","r">>,
                     <<"L","o","c","a","t","i","o","n">>,
                     <<"M","e","d","i","u","m">>,
                     <<"T","y","p","e">> >>]] >>
---------------------------------------------------------------------------
(* The Schema Catalog's lookup                                             *)

S_list_tables == <<"l","i","s","t"," ","t","a","b","l","e","s">>
S_describe_   == <<"d","e","s","c","r","i","b","e"," ">>

\* s.split(" ", 1)[1]: what follows the first space of s (IndexError: no space).
after_first_space(s) ==
  IF \E i \in DOMAIN s : s[i] = " "
    THEN LET first == CHOOSE i \in DOMAIN s :
                        s[i] = " " /\ \A j \in 1..(i - 1) : s[j] # " "
         IN Returned(SubSeq(s, first + 1, Len(s)))
    ELSE Raised(<<"list index out of range">>)

\* A _run that takes the table name from the lower-cased query.
DataSchemaRoadmap_run_lowered(self, query) ==
  IF str_lower(query) = S_list_tables
    THEN Returned(str_join(<<"\n">>, dict_keys(self)))
  ELSE IF str_startswith(str_lower(query), S_describe_)
    THEN LET split == after_first_space(str_lower(query))
             table_name == split.value
         IN IF split.raised THEN split
            ELSE IF dict_has(self, table_name)
              THEN LET table_info == dict_get(self, table_name)
                   IN Returned(<<"Table: ">> \o table_name
                               \o <<"\n", "Description: ">> \o table_info.description
                               \o <<"\n", "Fields: ">>
                               \o str_join(<<", ">>, table_info.fields))
              ELSE Returned(<<"Table ">> \o table_name
                            \o <<" not found in the schema map.">>)
  ELSE Returned(<<"Invalid query. Use ", "'", "list tables", "'",
                  " to see all tables or ", "'", "describe [table_name]", "'",
                  " for details on a specific table.">>)

\* A _run that indexes schema_map without the membership test.
DataSchemaRoadmap_run_unchecked(self, query) ==
  IF str_lower(query) = S_list_tables
    THEN Returned(str_join(<<"\n">>, dict_keys(self)))
  ELSE IF str_startswith(str_lower(query), S_describe_)
    THEN LET split == after_first_space(query)
             table_name == split.value
         IN IF split.raised THEN split
            ELSE LET table_info == table_info_get(self, table_name)
                 IN IF table_info.raised THEN table_info
                    ELSE Returned(<<"Table: ">> \o table_name
                             \o <<"\n", "Description: ">>
                             \o table_info.value.description
                             \o <<"\n", "Fields: ">>
                             \o str_join(<<", ">>, table_info.value.fields))
  ELSE Returned(<<"Invalid query. Use ", "'", "list tables", "'",
                  " to see all tables or ", "'", "describe [table_name]", "'",
                  " for details on a specific table.">>)

\* A _run that lists the identifiers in reverse order.
DataSchemaRoadmap_run_reversed(self, query) ==
  IF str_lower(query) = S_list_tables
    THEN Returned(str_join(<<"\n">>, [i \in DOMAIN self |-> dict_keys(self)[Len(self) + 1 - i]]))
  ELSE IF str_startswith(str_lower(query), S_describe_)
    THEN LET split == after_first_space(query)
             table_name == split.value
         IN IF split.raised THEN split
            ELSE IF dict_has(self, table_name)
              THEN LET table_info == dict_get(self, table_name)
                   IN Returned(<<"Table: ">> \o table_name
                               \o <<"\n", "Description: ">> \o table_info.description
                               \o <<"\n", "Fields: ">>
                               \o str_join(<<", ">>, table_info.fields))
              ELSE Returned(<<"Table ">> \o table_name
                            \o <<" not found in the schema map.">>)
  ELSE Returned(<<"Invalid query. Use ", "'", "list tables", "'",
                  " to see all tables or ", "'", "describe [table_name]", "'",
                  " for details on a specific table.">>)

\* DataSchemaRoadmapTool._run; `self` is self.schema_map.
DataSchemaRoadmap_run(self, query) ==
  IF str_lower(query) = S_list_tables
    THEN Returned(str_join(<<"\n">>, dict_keys(self)))
  ELSE IF str_startswith(str_lower(query), S_describe_)
    THEN LET split == after_first_space(query)
             table_name == split.value
         IN IF split.raised THEN split
            ELSE IF dict_has(self, table_name)
              THEN LET table_info == dict_get(self, table_name)
                   IN Returned(<<"Table: ">> \o table_name
                               \o <<"\n", "Description: ">> \o table_info.description
                               \o <<"\n", "Fields: ">>
                               \o str_join(<<", ">>, table_info.fields))
              ELSE Returned(<<"Table ">> \o table_name
                            \o <<" not found in the schema map.">>)
  ELSE Returned(<<"Invalid query. Use ", "'", "list tables", "'",
                  " to see all tables or ", "'", "describe [table_name]", "'",
                  " for details on a specific table.">>)

---------------------------------------------------------------------------
(* The Query Executor                                                      *)

\* The most rows a modelled result set holds.
MaxRows == 2

\* The values a cell of a result row takes here: an int, a str, None.
IntCell(digits) == [type |-> "int", val |-> <<digits>>]
StrCell(text)   == [type |-> "str", val |-> text]
NoneCell        == [type |-> "None", val |-> <<>>]

\* repr() of a cell's value.
repr_cell(c) ==
  IF c.type = "int" THEN c.val
  ELSE IF c.type = "None" THEN <<"None">>
  ELSE repr_str(c.val)

\* repr(dict(row)): the row's field-name to value pairs, in the row's order.
repr_row(row) ==
  <<"{">>
  \o str_join(<<", ">>,
       [i \in DOMAIN row |-> repr_str(row[i].key) \o <<": ">> \o repr_cell(row[i].value)])
  \o <<"}">>

\* A serialization that walks the rows from the last to the first.
str_rows_reversed(rows) ==
  <<"[">>
  \o str_join(<<", ">>, [i \in DOMAIN rows |-> repr_row(rows[Len(rows) + 1 - i])])
  \o <<"]">>

\* str([dict(row) for row in results])
str_rows(rows) ==
  <<"[">> \o str_join(<<", ">>, [i \in DOMAIN rows |-> repr_row(rows[i])]) \o <<"]">>

\* The body of execute_bigquery's try: client.query(query), query_job.result()
\* and the serialization; `w` is what the warehouse does with the query.
execute_bigquery_try(w) ==
  IF w.kind = "rows" THEN Returned(str_rows(w.rows))
  ELSE Raised(w.error)

\* except Exception as e: return f"An error occurred: {str(e)}"
error_string(e) == <<"An error occurred: ">> \o e

\* An executor whose try does not cover the call: the exception leaves it.
execute_bigquery_unguarded(w) == execute_bigquery_try(w)

\* An executor that sends the query again when the first attempt failed.
client_queries_retry(query, w) ==
  IF w.kind = "rows" THEN <<query>> ELSE <<query, query>>

\* The texts execute_bigquery gives to client.query, in order: the one call
\* of line 91, with `query` as received.
client_queries(query, w) == <<query>>

\* An executor whose except clause raises the error string as a new exception.
execute_bigquery_reraise(w) ==
  LET body == execute_bigquery_try(w)
  IN IF body.raised THEN Raised(error_string(body.value)) ELSE body

\* execute_bigquery(client, query)
execute_bigquery(w) ==
  LET body == execute_bigquery_try(w)
  IN IF body.raised THEN Returned(error_string(body.value)) ELSE body

\* The SQL texts offered to the executor.
SQL_select_1  == <<"SELECT 1">>
SQL_malformed == <<"SELEC 1">>
SQL_leads     == <<"SELECT ghl_location_name, SUM(Leads) AS Leads FROM ", BT,
                   "the-pulse-405018.the_pulse.opportunities_monthly_forLS", BT,
                   " WHERE Month = 1 GROUP BY ghl_location_name">>
SQL_empty     == <<>>
SqlTexts == {SQL_select_1, SQL_malformed, SQL_leads, SQL_empty}

\* Rows the warehouse may hold for SQL_leads.
LeadRows ==
  { << [key |-> <<"ghl_location_name">>, value |-> StrCell(<<"Acme">>)],
       [key |-> <<"Leads">>, value |-> IntCell("42")] >>,
    << [key |-> <<"ghl_location_name">>, value |-> StrCell(<<"O", "'", "Brien">>)],
       [key |-> <<"Leads">>, value |-> NoneCell] >> }

RECURSIVE SeqsUpTo(_, _)
SeqsUpTo(S, n) ==
  IF n = 0 THEN {<<>>}
  ELSE LET shorter == SeqsUpTo(S, n - 1)
       IN shorter \cup {Append(s, x) : s \in {t \in shorter : Len(t) = n - 1}, x \in S}

WarehouseFault(stage, msg) == [kind |-> stage, rows |-> <<>>, error |-> msg]
WarehouseRows(rows) == [kind |-> "rows", rows |-> rows, error |-> <<>>]

\* What the warehouse may do with a query: the external system, any of its outcomes.
Warehouse(sql) ==
  { WarehouseFault("query_fault", <<"Connection aborted.">>),
    WarehouseFault("result_fault", <<"Timeout waiting for the job">>) }
  \cup
  ( IF sql = SQL_select_1
      THEN { WarehouseRows(<< << [key |-> <<"f0_">>, value |-> IntCell("1")] >> >>) }
    ELSE IF sql = SQL_leads
      THEN { WarehouseRows(rows) : rows \in SeqsUpTo(LeadRows, MaxRows) }
           \cup { WarehouseFault("row_fault", <<"cannot convert row">>) }
    ELSE { WarehouseFault("result_fault",
             <<"400 Syntax error at [1:1]">>) } )

---------------------------------------------------------------------------
(* The Tool Registry and the Agent Controller                              *)

\* initialize_agent(..., max_iterations=5)
max_iterations == 5

ProviderTools ==
  << "Calls_ForLS", "Opportunities_ForLS", "Ad_Expense_Data_ForLS", "Reviews_ForLS",
     "Ad_Expense_Data_Monthly_ForLS", "Opportunities_Monthly_ForLS", "Calls_Monthly_ForLS" >>

\* A tool list in which the monthly calls provider was given the name of the
\* calls provider.
tools_name_twice ==
  << "BigQuery", "Data Schema Roadmap", "Calls_ForLS", "Opportunities_ForLS",
     "Ad_Expense_Data_ForLS", "Reviews_ForLS", "Ad_Expense_Data_Monthly_ForLS",
     "Opportunities_Monthly_ForLS", "Calls_ForLS" >>

\* The names of the `tools` list of setup_agent, in its order.
tools == << "BigQuery", "Data Schema Roadmap" >> \o ProviderTools

\* The func bound to a provider tool: <Class>()._run
provider_run(name, input) ==
  CASE name = "Calls_ForLS" -> CallsForLS_run(input)
    [] name = "Opportunities_ForLS" -> OpportunitiesForLS_run(input)
    [] name = "Ad_Expense_Data_ForLS" -> AdExpenseDataForLS_run(input)
    [] name = "Reviews_ForLS" -> ReviewsForLS_run(input)
    [] name = "Ad_Expense_Data_Monthly_ForLS" -> AdExpenseDataMonthlyForLS_run(input)
    [] name = "Opportunities_Monthly_ForLS" -> OpportunitiesMonthlyForLS_run(input)
    [] name = "Calls_Monthly_ForLS" -> CallsMonthlyForLS_run(input)

\* The func bound to each tool of the list; `w` is the warehouse's part in it.
tool_run(name, input, w) ==
  CASE name = "BigQuery" -> execute_bigquery(w)
    [] name = "Data Schema Roadmap" -> DataSchemaRoadmap_run(catalog, input)
    [] OTHER -> provider_run(name, input)

\* What a tool call sends to the warehouse: the executor's queries, and
\* nothing from the other tools.
tool_sent(name, input, w) ==
  IF name = "BigQuery" THEN client_queries(input, w) ELSE <<>>

None == <<>>
Some(x) == <<x>>

\* An agent set up without max_iterations: the engine's own default ceiling.
TheAgent_default_ceiling ==
  [tools |-> tools, temperature |-> 0, model |-> "gpt-4", max_iterations |-> 15]

\* What setup_agent returns: the engine client bound to the tools.
TheAgent ==
  [tools |-> tools, temperature |-> 0, model |-> "gpt-4",
   max_iterations |-> max_iterations]

\* How agent.run ended, and for which reason.
EngineOut(how, out) == [how |-> how, raised |-> out.raised, value |-> out.value]
NoOut == [how |-> "none", raised |-> FALSE, value |-> <<>>]
\* The warehouse's part in a tool call that does not reach the warehouse.
NoWarehouse == WarehouseRows(<<>>)
NoCall == [tool |-> "none", input |-> <<>>, w |-> NoWarehouse, sent |-> <<>>,
           out |-> Returned(<<>>)]

\* The engine's answer when it stops at the iteration ceiling.
StopMessage == <<"Agent stopped due to iteration limit or time limit.">>

\* An iteration counter that is kept from one run to the next.
iterations_kept(previous) == previous

\* The iteration counter of a run that starts: a local of the engine's loop.
iterations_at_start(previous) == 0

\* The instruction text of run_agent before {prompt} (lines 891-893).
instruction_head ==
  << "Use the following steps to answer this question about the ", "'", "the_pulse", "'", " dataset",
     "\n", "        in the ", "'", "the-pulse-405018", "'", " project:", "\n", "        " >>

\* The instruction text of run_agent after {prompt}: the steps and the
\* reminders (lines 893-918).
instruction_steps ==
  << "\n", "        Steps:", "\n",
     "        1. Check the Data Schema Roadmap tool and identify the relevant table(s) for the query. Use the command ",
     "\"", "list tables", "\"", ".", "\n",
     "        2. After identifying the relevant table, select the appropriate tool from the tool roster.",
     "\n", "        3. To use the tool, do it like this:", "\n",
     "        - For information about a specific field: ", BT, "ToolName._run(", "\"", "field_name",
     "\"", ")", BT, "\n", "        - For the table structure: ", BT, "ToolName._run(", "\"", "structure",
     "\"", ")", BT, "\n", "        - For the full SQL query: ", BT, "ToolName._run(", "\"", "full_query",
     "\"", ")", BT, "\n", "        - For clustering information: ", BT, "ToolName._run(", "\"",
     "clustering", "\"", ")", BT, "\n", "        - For partitioning information: ", BT, "ToolName._run(",
     "\"", "partitioning", "\"", ")", BT, "\n", "        - For grouping information: ", BT,
     "ToolName._run(", "\"", "grouping", "\"", ")", BT, "\n", "        - For source table information: ",
     BT, "ToolName._run(", "\"", "source_table", "\"", ")", BT, "\n",
     "        - For time periods (if applicable): ", BT, "ToolName._run(", "\"", "time_periods", "\"",
     ")", BT, "\n",
     "        4. Identify in the tool the SQL query or queries used to create the data for the looker studio visualization.",
     "\n", "        5. Use the Bigquery tool to execute the query as described", "\n",
     "        6. Analyze the results for relevant information.", "\n",
     "        7. Interpret the results and provide a natural language answer.", "\n",
     "        Remember:", "\n", "        - Always use proper BigQuery syntax and table references.",
     "\n",
     "        - When formatting SQL queries, ensure that the syntax is correct and there are no extraneous characters.",
     "\n", "        - Do NOT add ", "\"", BT, BT, BT, "sql", "\"", " before the query or ", "\"", BT, BT,
     BT, "\"", " after. Instead, send the query directly.", "\n",
     "        - YOUR ACTION INPUT FOR BIG QUERY TOOL SHOULD NOT BE PRECEDED BY ", BT, BT, BT, "sql OR ",
     BT, BT, BT, " AND SHOULD NOT END WITH ", BT, BT, BT, ". DOUBLE CHECK IT BEFORE SENDING", "\n",
     "        - ATTEMPT TO REPLICATE THE ORIGINAL QUERY INSTEAD OF MAKING YOUR OWN. ONLY MAKE YOUR OWN IF YOU CANNOT QUERY EXACTLY AS IT IS DONE IN THE TOOL.",
     "\n",
     "        - If you need to modify the original query, make sure to preserve the essential structure and only change the necessary parts to answer the specific question.",
     "\n",
     "        - Always consider the partitioning, clustering, and grouping of the table when writing or modifying queries for optimal performance.",
     "\n", "        " >>

\* A run_agent that hands the question alone to agent.run.
instruction_question_only(question) == question

\* An instruction text that carries the transcript's entries, not the question
\* alone.
instruction_with_transcript(question) ==
  instruction_head
  \o str_join(<<"\n">>, [i \in DOMAIN app_state.messages |-> app_state.messages[i].content])
  \o instruction_steps

\* The f-string run_agent hands to agent.run.
instruction(question) == instruction_head \o question \o instruction_steps

\* A run_agent without the except clause: the exception leaves it.
run_agent_no_except(out) == [raised |-> out.raised, value |-> out.value]

\* run_agent's try/except around agent.run: the result is returned, an
\* exception becomes the error string.
run_agent(out) ==
  IF out.raised THEN Returned(error_string(out.value))
  ELSE Returned(out.value)

---------------------------------------------------------------------------
(* The inputs the model draws                                              *)

\* The most questions asked in a session.
MaxQuestions == 2

Keys == {<<>>, <<"sk-test">>}

Question_leads == <<"How many leads did Acme get last month?">>
Question_ticks == <<BT, BT, BT, "sql SELECT 1", BT, BT, BT>>
Questions == {Question_leads}

\* The strings run_agent is given when called on its own.
AskPrompts == {Question_leads, Question_ticks, <<>>}

FinalAnswers == {<<"Acme got 42 leads last month.">>}
EngineFaults == {<<"Could not parse LLM output: ", BT, "I think", BT>>}

\* The tool inputs the engine chooses among within a question (every topic,
\* "structure" among them, is asked of every provider in ProviderSpec).
ProviderInputs ==
  { <<"L","e","a","d","s">>,
    <<"c","a","l","l","_","d","a","t","e">>,
    S_time_periods,
    <<"u","n","k","n","o","w","n">> }

CatalogInputs ==
  { S_list_tables,
    <<"d","e","s","c","r","i","b","e"," ","t","h","e","_","p","u","l","s","e",".",
      "c","a","l","l","s","_","f","o","r","L","S">>,
    <<"d","e","s","c","r","i","b","e"," ","n","o","p","e">>,
    <<"t","a","b","l","e","s">> }

ToolInputs(name) ==
  IF name = "BigQuery" THEN SqlTexts
  ELSE IF name = "Data Schema Roadmap" THEN CatalogInputs
  ELSE ProviderInputs

Range(s) == {s[i] : i \in DOMAIN s}

---------------------------------------------------------------------------
(* The session                                                             *)

\* st.session_state.app_state as first set (lines 927-933).
FreshAppState ==
  [logged_in |-> FALSE, messages |-> <<>>, openai_api_key |-> <<>>, agent |-> None]

\* An initialization without its guard: every script run sets app_state anew.
app_state_always_fresh(has, current) == FreshAppState

\* if "app_state" not in st.session_state: st.session_state.app_state = {...}
app_state_at_top(has, current) == IF has THEN current ELSE FreshAppState

\* A main that shows the chat page whatever logged_in is.
page_always_chat(state) == "chat"

\* main(): the page a script run shows.
page(state) == IF ~state.logged_in THEN "login" ELSE "chat"

\* setup_agent(openai_api_key): the agent, or the exception of a failed set-up.
setup_agent(key, ok) ==
  IF ok THEN Returned(Some(TheAgent))
  ELSE Raised(<<"Service account info was not in the expected format">>)

\* An attempt_login that sets logged_in before it calls setup_agent.
attempt_login_flag_first(state, key, setup) ==
  IF key # <<>>
    THEN IF setup.raised THEN [state EXCEPT !.logged_in = TRUE]
         ELSE [state EXCEPT !.agent = setup.value,
                            !.logged_in = TRUE,
                            !.openai_api_key = key]
    ELSE state

\* An attempt_login without the test of the key.
attempt_login_any_key(state, key, setup) ==
  IF setup.raised THEN state
  ELSE [state EXCEPT !.agent = setup.value,
                     !.logged_in = TRUE,
                     !.openai_api_key = key]

\* attempt_login(): the app_state it leaves, `setup` being setup_agent's outcome.
attempt_login(state, key, setup) ==
  IF key # <<>>
    THEN IF setup.raised THEN state
         ELSE [state EXCEPT !.agent = setup.value,
                            !.logged_in = TRUE,
                            !.openai_api_key = key]
    ELSE state

Init ==
  /\ has_app_state = FALSE
  /\ app_state = FreshAppState
  /\ widget_key = <<>>
  /\ environ_key = <<>>
  /\ pc = "idle"
  /\ prompt = <<>>
  /\ run_on = None
  /\ iterations = 0
  /\ last_call = NoCall
  /\ engine_out = NoOut
  /\ ask_result = Returned(<<>>)
  /\ engine_in = <<>>
  /\ catalog = <<>>

\* A script run without a widget event (the page is opened or reloaded).
Rerun ==
  /\ pc = "idle"
  /\ has_app_state' = TRUE
  /\ app_state' = app_state_at_top(has_app_state, app_state)
  /\ UNCHANGED << widget_key, environ_key, pc, prompt, run_on, iterations,
                  last_call, engine_out, ask_result >>
  /\ UNCHANGED catalog
  /\ UNCHANGED engine_in

\* os.environ["OPENAI_API_KEY"] after attempt_login: setup_agent sets it first.
environ_after_login(key) == IF key # <<>> THEN key ELSE environ_key

\* The schema_map of the tool list's DataSchemaRoadmapTool after attempt_login:
\* a setup_agent that succeeds has constructed the tool (line 836).
catalog_after_login(key, ok) == IF key # <<>> /\ ok THEN schema_map ELSE catalog

\* The text input changes to `key`: its on_change callback attempt_login runs,
\* then the script.
LoginOnChange(key, ok) ==
  /\ pc = "idle"
  /\ has_app_state
  /\ page(app_state) = "login"
  /\ key # widget_key
  /\ widget_key' = key
  /\ environ_key' = environ_after_login(key)
  /\ catalog' = catalog_after_login(key, ok)
  /\ app_state' = app_state_at_top(has_app_state,
                     attempt_login(app_state, key, setup_agent(key, ok)))
  /\ UNCHANGED << has_app_state, pc, prompt, run_on, iterations, last_call,
                  engine_out, ask_result >>
  /\ UNCHANGED engine_in

\* The LOGIN button is pressed: the script runs, login_page calls attempt_login.
LoginButton(ok) ==
  /\ pc = "idle"
  /\ has_app_state
  /\ page(app_state_at_top(has_app_state, app_state)) = "login"
  /\ environ_key' = environ_after_login(widget_key)
  /\ catalog' = catalog_after_login(widget_key, ok)
  /\ app_state' = attempt_login(app_state_at_top(has_app_state, app_state),
                                widget_key, setup_agent(widget_key, ok))
  /\ UNCHANGED << has_app_state, widget_key, pc, prompt, run_on, iterations,
                  last_call, engine_out, ask_result >>
  /\ UNCHANGED engine_in

\* A chat_page that takes a question while run_agent is still running (the
\* call handed to a background thread).
ChatSubmit_in_background(p) ==
  /\ has_app_state
  /\ page(app_state_at_top(has_app_state, app_state)) = "chat"
  /\ p # <<>>
  /\ Len(app_state.messages) < 2 * MaxQuestions
  /\ app_state' = [app_state_at_top(has_app_state, app_state) EXCEPT
                     !.messages = Append(@, [role |-> "user", content |-> p])]
  /\ prompt' = p
  /\ run_on' = app_state_at_top(has_app_state, app_state).agent
  /\ pc' = "call"
  /\ UNCHANGED << has_app_state, widget_key, environ_key, iterations, last_call,
                  engine_out, ask_result >>
  /\ UNCHANGED catalog
  /\ UNCHANGED engine_in

\* chat_page's `if prompt:` with a question typed: the user entry is appended
\* and run_agent is called.
ChatSubmit(p) ==
  /\ pc = "idle"
  /\ has_app_state
  /\ page(app_state_at_top(has_app_state, app_state)) = "chat"
  /\ p # <<>>
  /\ Len(app_state.messages) < 2 * MaxQuestions
  /\ app_state' = [app_state_at_top(has_app_state, app_state) EXCEPT
                     !.messages = Append(@, [role |-> "user", content |-> p])]
  /\ prompt' = p
  /\ run_on' = app_state_at_top(has_app_state, app_state).agent
  /\ pc' = "call"
  /\ UNCHANGED << has_app_state, widget_key, environ_key, iterations, last_call,
                  engine_out, ask_result >>
  /\ UNCHANGED catalog
  /\ UNCHANGED engine_in

\* run_agent calls agent.run: the engine's loop starts, or, with no agent,
\* the attribute access raises.
AgentRun ==
  /\ pc = "call"
  /\ IF run_on = None
       THEN /\ engine_in' = engine_in
            /\ engine_out' = EngineOut("no_agent",
                 Raised(<<"'", "NoneType", "'", " object has no attribute ", "'", "run", "'">>))
            /\ pc' = "ended"
            /\ UNCHANGED iterations
       ELSE /\ engine_in' = instruction(prompt)
            /\ iterations' = iterations_at_start(iterations)
            /\ pc' = "loop"
            /\ UNCHANGED engine_out
  /\ UNCHANGED << has_app_state, app_state, widget_key, environ_key, prompt,
                  run_on, last_call, ask_result >>
  /\ UNCHANGED catalog

\* One iteration of the engine's loop: it invokes a tool with an input of its
\* choice and reads what the tool returns; a tool's exception ends the run.
EngineAct(name, input, w) ==
  /\ pc = "loop"
  /\ iterations < run_on[1].max_iterations
  /\ name \in Range(run_on[1].tools)
  /\ LET out == tool_run(name, input, w)
     IN /\ last_call' = [tool |-> name, input |-> input, w |-> w,
                          sent |-> tool_sent(name, input, w), out |-> out]
        /\ IF out.raised
             THEN /\ engine_out' = EngineOut("tool_fault", out)
                  /\ pc' = "ended"
                  /\ UNCHANGED iterations
             ELSE /\ iterations' = iterations + 1
                  /\ UNCHANGED << engine_out, pc >>
  /\ UNCHANGED << has_app_state, app_state, widget_key, environ_key, prompt,
                  run_on, ask_result >>
  /\ UNCHANGED catalog
  /\ UNCHANGED engine_in

\* The engine gives its final answer.
EngineFinish(answer) ==
  /\ pc = "loop"
  /\ iterations < run_on[1].max_iterations
  /\ engine_out' = EngineOut("final", Returned(answer))
  /\ pc' = "ended"
  /\ last_call' = NoCall
  /\ UNCHANGED << has_app_state, app_state, widget_key, environ_key, prompt,
                  run_on, iterations, ask_result >>
  /\ UNCHANGED catalog
  /\ UNCHANGED engine_in

\* The loop ends at the ceiling: the engine answers with its stop message.
EngineStop ==
  /\ pc = "loop"
  /\ iterations >= run_on[1].max_iterations
  /\ engine_out' = EngineOut("stopped", Returned(StopMessage))
  /\ pc' = "ended"
  /\ last_call' = NoCall
  /\ UNCHANGED << has_app_state, app_state, widget_key, environ_key, prompt,
                  run_on, iterations, ask_result >>
  /\ UNCHANGED catalog
  /\ UNCHANGED engine_in

\* The engine raises (an unparsable model output, a network fault).
EngineFault(msg) ==
  /\ pc = "loop"
  /\ engine_out' = EngineOut("fault", Raised(msg))
  /\ pc' = "ended"
  /\ last_call' = NoCall
  /\ UNCHANGED << has_app_state, app_state, widget_key, environ_key, prompt,
                  run_on, iterations, ask_result >>
  /\ UNCHANGED catalog
  /\ UNCHANGED engine_in

\* run_agent ends: return result, or the except clause's string.
RunAgentReturn ==
  /\ pc = "ended"
  /\ ask_result' = run_agent(engine_out)
  /\ pc' = "returned"
  /\ UNCHANGED << has_app_state, app_state, widget_key, environ_key, prompt,
                  run_on, iterations, last_call, engine_out >>
  /\ UNCHANGED catalog
  /\ UNCHANGED engine_in

\* A chat_page that puts the answer at the head of the transcript.
chat_page_after_insert(state, result) ==
  IF result.raised THEN state
  ELSE [state EXCEPT !.messages =
          <<[role |-> "assistant", content |-> result.value]>> \o @]

\* A chat_page that shows an error answer with st.error and does not append it.
chat_page_after_skips_errors(state, result) ==
  IF result.raised \/ (Len(result.value) >= 1 /\ result.value[1] = "An error occurred: ")
    THEN state
    ELSE [state EXCEPT !.messages =
            Append(@, [role |-> "assistant", content |-> result.value])]

\* chat_page after run_agent: the answer is shown and appended; an exception
\* out of run_agent is shown by st.error and nothing is appended.  The
\* finished call's locals are gone.
chat_page_after(state, result) ==
  IF result.raised THEN state
  ELSE [state EXCEPT !.messages =
          Append(@, [role |-> "assistant", content |-> result.value])]

ChatAnswer ==
  /\ pc = "returned"
  /\ has_app_state
  /\ app_state' = chat_page_after(app_state, ask_result)
  /\ pc' = "idle"
  /\ prompt' = <<>>
  /\ run_on' = None
  /\ last_call' = NoCall
  /\ engine_out' = NoOut
  /\ ask_result' = Returned(<<>>)
  /\ engine_in' = <<>>
  /\ UNCHANGED << has_app_state, widget_key, environ_key, iterations >>
  /\ UNCHANGED catalog

Login ==
  \/ \E key \in Keys, ok \in BOOLEAN : LoginOnChange(key, ok)
  \/ \E ok \in BOOLEAN : LoginButton(ok)

Submit == \E p \in Questions : ChatSubmit(p)

Act ==
  \E name \in Range(tools) : \E input \in ToolInputs(name) :
    \E w \in (IF name = "BigQuery" THEN Warehouse(input) ELSE {NoWarehouse}) :
      EngineAct(name, input, w)

Finish == \E answer \in FinalAnswers : EngineFinish(answer)

Fault == \E msg \in EngineFaults : EngineFault(msg)

Next ==
  \/ Rerun
  \/ Login
  \/ Submit
  \/ AgentRun
  \/ Act
  \/ Finish
  \/ EngineStop
  \/ Fault
  \/ RunAgentReturn
  \/ ChatAnswer

Spec == Init /\ [][Next]_vars

---------------------------------------------------------------------------
(* run_agent called on its own, on any agent and any string                *)

InitAsk ==
  /\ has_app_state = TRUE
  /\ app_state = FreshAppState
  /\ widget_key = <<>>
  /\ environ_key = <<>>
  /\ pc = "call"
  /\ prompt \in AskPrompts
  /\ run_on \in {None, Some(TheAgent)}
  /\ iterations = 0
  /\ last_call = NoCall
  /\ engine_out = NoOut
  /\ ask_result = Returned(<<>>)
  /\ engine_in = <<>>
  /\ catalog = schema_map

NextAsk ==
  \/ AgentRun
  \/ Act
  \/ Finish
  \/ EngineStop
  \/ Fault
  \/ RunAgentReturn

AskSpec == InitAsk /\ [][NextAsk]_vars

---------------------------------------------------------------------------
(* The providers' lookups called on their own, on every topic              *)

\* The table_info of the provider bound to a tool name.
table_info_of(name) ==
  CASE name = "Calls_ForLS" -> CallsForLS_table_info
    [] name = "Opportunities_ForLS" -> OpportunitiesForLS_table_info
    [] name = "Ad_Expense_Data_ForLS" -> AdExpenseDataForLS_table_info
    [] name = "Reviews_ForLS" -> ReviewsForLS_table_info
    [] name = "Ad_Expense_Data_Monthly_ForLS" -> AdExpenseDataMonthlyForLS_table_info
    [] name = "Opportunities_Monthly_ForLS" -> OpportunitiesMonthlyForLS_table_info
    [] name = "Calls_Monthly_ForLS" -> CallsMonthlyForLS_table_info

\* The field names of a provider's contract, as written.
FieldNames(name) == Range(dict_keys(dict_get(table_info_of(name), S_fields).val))

AttributeKeywords ==
  {S_clustering, S_partitioning, S_grouping, S_full_query, S_source_table, S_time_periods}

\* The closed vocabulary of a provider, in its canonical spelling.
Vocabulary(name) == {S_structure} \cup FieldNames(name) \cup AttributeKeywords

\* Spellings of a topic that differ from it in letter case only.
AllLower(s) == [i \in DOMAIN s |-> lower_char(s[i])]
AllUpper(s) == [i \in DOMAIN s |-> upper_char(s[i])]
FlipAt(s, k) ==
  [i \in DOMAIN s |->
     IF i # k THEN s[i]
     ELSE IF lower_char(s[i]) # s[i] THEN lower_char(s[i]) ELSE upper_char(s[i])]
CaseVariants(s) == {s, AllLower(s), AllUpper(s)} \cup {FlipAt(s, k) : k \in DOMAIN s}

\* Topics of no provider's vocabulary.
UnknownTopics ==
  { <<>>,
    <<"u","n","k","n","o","w","n">>,
    <<"s","t","r","u","c","t","u","r","e"," ">>,
    <<"f","i","e","l","d","s">>,
    <<"n","a","m","e">>,
    <<"l","i","s","t"," ","t","a","b","l","e","s">>,
    <<BT,"r","a","t","i","n","g",BT>> }

\* The topics asked of every provider: every vocabulary in every spelling
\* above, a provider's own and the other providers', and the unknown topics.
Topics ==
  UnknownTopics
  \cup UNION { CaseVariants(v) : v \in UNION { Vocabulary(n) : n \in Range(ProviderTools) } }

\* A topic is outside a provider's vocabulary, letter case set aside.
OutsideVocabulary(name, topic) ==
  \A v \in Vocabulary(name) : AllLower(topic) # AllLower(v)

\* query(topic) on the provider bound to `name`.
Query(name, topic) ==
  /\ pc = "idle"
  /\ last_call = NoCall
  /\ last_call' = [tool |-> name, input |-> topic, w |-> NoWarehouse, sent |-> <<>>,
                   out |-> provider_run(name, topic)]
  /\ UNCHANGED << has_app_state, app_state, widget_key, environ_key, pc, prompt,
                  run_on, iterations, engine_out, ask_result >>
  /\ UNCHANGED catalog
  /\ UNCHANGED engine_in

NextProvider == \E name \in Range(ProviderTools), topic \in Topics : Query(name, topic)

ProviderSpec == Init /\ [][NextProvider]_vars


---------------------------------------------------------------------------
(* The Schema Catalog called on its own, in any sequence of operations     *)

\* The table identifiers of schema_map as constructed.
TableIdentifiers == Range(dict_keys(schema_map))

\* Identifiers the catalog does not hold: the empty string, an unknown name,
\* and each table identifier in another letter case (all lower, all upper,
\* its first or its last letter changed), after an extra space and before one.
AbsentIdentifiers ==
  { <<>>, <<"n","o","p","e">>, <<" ">> }
  \cup UNION { {AllLower(id), AllUpper(id), FlipAt(id, 1), FlipAt(id, Len(id))} \ {id} :
                 id \in TableIdentifiers }
  \cup { <<" ">> \o id : id \in TableIdentifiers }
  \cup { id \o <<" ">> : id \in TableIdentifiers }

\* Commands that are neither "list tables" nor "describe ...".
InvalidCommands ==
  { <<>>,
    <<"t","a","b","l","e","s">>,
    <<"d","e","s","c","r","i","b","e">>,
    <<"l","i","s","t"," "," ","t","a","b","l","e","s">>,
    <<"l","i","s","t"," ","t","a","b","l","e","s"," ">>,
    <<" ","d","e","s","c","r","i","b","e"," ","x">> }

\* The commands given to the catalog.
CatalogQueries ==
  CaseVariants(S_list_tables)
  \cup { prefix \o id : prefix \in CaseVariants(S_describe_), id \in TableIdentifiers }
  \cup { S_describe_ \o id : id \in AbsentIdentifiers }
  \cup InvalidCommands

\* DataSchemaRoadmapTool(): __init__ has set self.schema_map.
InitCatalog ==
  /\ has_app_state = FALSE
  /\ app_state = FreshAppState
  /\ widget_key = <<>>
  /\ environ_key = <<>>
  /\ pc = "idle"
  /\ prompt = <<>>
  /\ run_on = None
  /\ iterations = 0
  /\ last_call = NoCall
  /\ engine_out = NoOut
  /\ ask_result = Returned(<<>>)
  /\ engine_in = <<>>
  /\ catalog = schema_map

\* A _run whose describe takes the entry out of the map (dict.pop).
CatalogCall_pop(query) ==
  /\ pc = "idle"
  /\ last_call' = [tool |-> "Data Schema Roadmap", input |-> query, w |-> NoWarehouse,
                   sent |-> <<>>,
                   out |-> DataSchemaRoadmap_run(catalog, query)]
  /\ catalog' = IF str_startswith(str_lower(query), S_describe_)
                  THEN SelectSeq(catalog,
                         LAMBDA e : e.key # after_first_space(query).value)
                  ELSE catalog
  /\ UNCHANGED << has_app_state, app_state, widget_key, environ_key, pc, prompt,
                  run_on, iterations, engine_out, ask_result >>
  /\ UNCHANGED engine_in

\* DataSchemaRoadmapTool._run(query) on the constructed tool: it reads
\* self.schema_map and assigns nothing.
CatalogCall(query) ==
  /\ pc = "idle"
  /\ last_call' = [tool |-> "Data Schema Roadmap", input |-> query, w |-> NoWarehouse,
                   sent |-> <<>>,
                   out |-> DataSchemaRoadmap_run(catalog, query)]
  /\ UNCHANGED << has_app_state, app_state, widget_key, environ_key, pc, prompt,
                  run_on, iterations, engine_out, ask_result, catalog >>
  /\ UNCHANGED engine_in

NextCatalog == \E query \in CatalogQueries : CatalogCall(query)

CatalogSpec == InitCatalog /\ [][NextCatalog]_vars

---------------------------------------------------------------------------
(* Properties                                                              *)

\* The transcript.
Transcript == app_state.messages

\* A provider tool has just been called.
ProviderCalled == last_call.tool \in Range(ProviderTools)

\* The text is a string: a sequence of chunks.
IsString(v) == v \in Seq(STRING)

\* The text begins with the executor's and the controller's error prefix.
HasErrorPrefix(v) == Len(v) >= 1 /\ v[1] = "An error occurred: "

\* The text is a provider's lookup-miss diagnostic.
IsDiagnostic(v) == Len(v) >= 1 /\ v[1] = "No information found for query: "

\* C1: run_agent never raises: for every input string (the empty string and
\* a string with backticks among them), every agent and every way the engine
\* or a tool fails, it returns a string, and when the engine raised, the
\* string is "An error occurred: " followed by the exception's message.
C1_AskNeverRaises ==
  pc = "returned" =>
    /\ ~ask_result.raised
    /\ IsString(ask_result.value)
    /\ engine_out.raised =>
         /\ HasErrorPrefix(ask_result.value)
         /\ SubSeq(ask_result.value, 2, Len(ask_result.value)) = engine_out.value

\* C1 witness: run_agent was given the empty string, the engine raised, and
\* run_agent returned the error string.
C1_Witness ==
  /\ pc = "returned"
  /\ prompt = <<>>
  /\ engine_out.how = "fault"
  /\ ~ask_result.raised
  /\ HasErrorPrefix(ask_result.value)

\* C2: execute_bigquery never raises: when submitting the query, waiting for
\* the result or serializing the rows fails, it returns "An error occurred: "
\* followed by the failure's message.
C2_ExecutorNeverRaises ==
  last_call.tool = "BigQuery" =>
    /\ ~last_call.out.raised
    /\ IsString(last_call.out.value)
    /\ last_call.w.kind # "rows" =>
         /\ HasErrorPrefix(last_call.out.value)
         /\ SubSeq(last_call.out.value, 2, Len(last_call.out.value)) = last_call.w.error

\* C2 witness: serializing the rows failed and the executor returned the
\* error string.
C2_Witness ==
  /\ last_call.tool = "BigQuery"
  /\ last_call.w.kind = "row_fault"
  /\ ~last_call.out.raised
  /\ HasErrorPrefix(last_call.out.value)

\* The k-th smallest member of a set of positions.
KthOf(S, k) == CHOOSE i \in S : Cardinality({j \in S : j < i}) = k - 1

Positions(text, chunk) == {i \in DOMAIN text : text[i] = chunk}

\* The row entries of a serialized result: what stands between the k-th "{"
\* and the k-th "}".
RowEntries(text) ==
  [k \in 1..Cardinality(Positions(text, "{")) |->
     SubSeq(text, KthOf(Positions(text, "{"), k) + 1,
                  KthOf(Positions(text, "}"), k) - 1)]

\* The pairs of a row entry: what the ", " chunks separate.
EntryPairs(entry) ==
  LET seps == Positions(entry, ", ")
      n == Cardinality(seps)
  IN IF entry = <<>> THEN <<>>
     ELSE [k \in 1..(n + 1) |->
             SubSeq(entry,
                    (IF k = 1 THEN 0 ELSE KthOf(seps, k - 1)) + 1,
                    (IF k = n + 1 THEN Len(entry) + 1 ELSE KthOf(seps, k)) - 1)]

\* A pair of a row entry holds this field: the quoted name, ": ", the value.
PairHolds(pair, field) ==
  /\ Len(pair) >= 5
  /\ <<pair[2]>> = field.key
  /\ pair[1] = pair[3]
  /\ pair[4] = ": "
  /\ SubSeq(pair, 5, Len(pair)) = repr_cell(field.value)

\* C3: for a query that returns N rows, execute_bigquery returns a text with
\* exactly N row entries, in the warehouse's order, each holding its row's
\* field-name to value pairs; "SELECT 1" yields one entry with one field.
C3_RowEntries ==
  (last_call.tool = "BigQuery" /\ last_call.w.kind = "rows") =>
    LET rows == last_call.w.rows
        text == last_call.out.value
        entries == RowEntries(text)
    IN /\ ~last_call.out.raised
       /\ Len(text) >= 2 /\ text[1] = "[" /\ text[Len(text)] = "]"
       /\ Cardinality(Positions(text, "}")) = Len(rows)
       /\ Len(entries) = Len(rows)
       /\ \A k \in DOMAIN rows :
            LET pairs == EntryPairs(entries[k])
            IN /\ Len(pairs) = Len(rows[k])
               /\ \A j \in DOMAIN pairs : PairHolds(pairs[j], rows[k][j])
       /\ last_call.input = SQL_select_1 =>
            Len(entries) = 1 /\ Len(EntryPairs(entries[1])) = 1

\* C3 witness: the executor serialized two different rows.
C3_Witness ==
  /\ last_call.tool = "BigQuery"
  /\ last_call.w.kind = "rows"
  /\ Len(last_call.w.rows) = 2
  /\ last_call.w.rows[1] # last_call.w.rows[2]
  /\ Len(RowEntries(last_call.out.value)) = 2

\* C4: one ask makes at most 5 iterations (tool invocations); at the ceiling
\* the question ends with the engine's stop message, which run_agent returns
\* as the answer string.
C4_IterationCeiling ==
  /\ iterations <= 5
  /\ engine_out.how = "stopped" =>
       /\ iterations = 5
       /\ ~engine_out.raised
       /\ engine_out.value = StopMessage
  /\ (pc = "returned" /\ engine_out.how = "stopped") =>
       ask_result = Returned(StopMessage)

\* C4 witness: a question made 5 tool invocations and run_agent returned the
\* stop message.
C4_Witness ==
  /\ pc = "returned"
  /\ engine_out.how = "stopped"
  /\ iterations = 5
  /\ ask_result = Returned(StopMessage)

\* The last question ended at the iteration ceiling and no question runs.
AfterExhaustion ==
  /\ pc = "idle"
  /\ Len(Transcript) >= 2
  /\ Transcript[Len(Transcript)].role = "assistant"
  /\ Transcript[Len(Transcript)].content = StopMessage

\* run_agent is entered for the question that follows one that ended at the
\* ceiling.
AskedAfterExhaustion ==
  /\ pc = "call"
  /\ Len(Transcript) >= 3
  /\ Transcript[Len(Transcript) - 1].role = "assistant"
  /\ Transcript[Len(Transcript) - 1].content = StopMessage

\* C5: exhausting the ceiling is scoped to its question: afterwards the
\* session is ready with the same agent and tools, and stays so; the next
\* question runs on that agent and starts with the full budget of 5.
C5_ExhaustionScoped ==
  [][ /\ AfterExhaustion =>
           /\ app_state.logged_in
           /\ app_state.agent = Some(TheAgent)
           /\ app_state'.logged_in
           /\ app_state'.agent = app_state.agent
      /\ (AskedAfterExhaustion /\ pc' = "loop") =>
           /\ run_on = Some(TheAgent)
           /\ iterations' = 0
           /\ run_on[1].max_iterations - iterations' = 5 ]_vars

\* C5 witness: a question ended at the ceiling and the next one was answered.
C5_Witness ==
  /\ pc = "idle"
  /\ Len(Transcript) = 4
  /\ Transcript[2].content = StopMessage
  /\ Transcript[4].role = "assistant"
  /\ Transcript[4].content \in FinalAnswers

\* C6: the session is uninitialized (logged_in = False) or ready (logged_in
\* = True); once ready it stays ready, with the agent it has.
C6_ReadyIsIrreversible ==
  [][ /\ app_state.logged_in \in BOOLEAN
      /\ app_state.logged_in =>
           /\ app_state'.logged_in
           /\ app_state.agent # None
           /\ app_state'.agent = app_state.agent ]_vars

\* C6 witness: the session is ready and has answered a question.
C6_Witness ==
  /\ app_state.logged_in
  /\ pc = "idle"
  /\ Len(Transcript) = 2

\* A login attempt with a key, in which setup_agent fails.
FailedLogin ==
  \/ \E key \in Keys \ {<<>>} : LoginOnChange(key, FALSE)
  \/ widget_key # <<>> /\ LoginButton(FALSE)

\* C7: when setup_agent fails in a login attempt the session remains
\* uninitialized: logged_in stays False, the agent stays None, and the login
\* page is still the one shown.
C7_FailedSetupStaysUninitialized ==
  [][ FailedLogin =>
        /\ ~app_state'.logged_in
        /\ app_state'.agent = None
        /\ page(app_state') = "login" ]_vars

\* C7 witness: setup_agent ran with a key (it set the environment variable)
\* and the session is not logged in.
C7_Witness ==
  /\ has_app_state
  /\ environ_key # <<>>
  /\ ~app_state.logged_in
  /\ app_state.agent = None

\* C8: on every provider, a topic outside the vocabulary gets the diagnostic
\* string, and every topic gets a string: the lookup never raises.
C8_UnknownTopicDiagnostic ==
  ProviderCalled =>
    /\ ~last_call.out.raised
    /\ IsString(last_call.out.value)
    /\ OutsideVocabulary(last_call.tool, last_call.input) =>
         IsDiagnostic(last_call.out.value)

\* C8 witness: the reviews provider was asked a topic with backticks, which
\* is in no vocabulary, and returned the diagnostic.
C8_Witness ==
  /\ last_call.tool = "Reviews_ForLS"
  /\ last_call.input = <<BT,"r","a","t","i","n","g",BT>>
  /\ OutsideVocabulary(last_call.tool, last_call.input)
  /\ IsDiagnostic(last_call.out.value)

\* The text is a provider's answer for a field.
IsFieldAnswer(v) == Len(v) >= 1 /\ v[1] = "Field "

\* C9: on every provider, every field name of the contract's fields, asked
\* as written, gets that field's provenance and not the diagnostic.
C9_EveryFieldRetrievable ==
  (ProviderCalled /\ last_call.input \in FieldNames(last_call.tool)) =>
    /\ ~last_call.out.raised
    /\ ~IsDiagnostic(last_call.out.value)
    /\ IsFieldAnswer(last_call.out.value)

\* C10: on every provider, a spelling of a vocabulary topic that differs from
\* it in letter case only gets the result the topic itself gets.
C10_CaseInsensitive ==
  ProviderCalled =>
    \A v \in Vocabulary(last_call.tool) :
      last_call.input \in CaseVariants(v) =>
        last_call.out = provider_run(last_call.tool, v)

\* C10 witness: "STRUCTURE" was asked and the whole contract came back.
C10_Witness ==
  /\ last_call.tool = "Calls_ForLS"
  /\ last_call.input = AllUpper(S_structure)
  /\ last_call.input # S_structure
  /\ ~last_call.out.raised
  /\ last_call.out.value = str_table_info(CallsForLS_table_info)

\* The text holds the part, chunk for chunk.
Contains(text, part) ==
  \E i \in 0..(Len(text) - Len(part)) : SubSeq(text, i + 1, i + Len(part)) = part

\* C11: on every provider, an attribute keyword the contract has gets a
\* string that contains the attribute's value; only a keyword the contract
\* lacks gets the diagnostic.
C11_AttributeAnswers ==
  (ProviderCalled /\ last_call.input \in AttributeKeywords) =>
    LET info == table_info_of(last_call.tool)
    IN /\ ~last_call.out.raised
       /\ IF dict_has(info, last_call.input)
            THEN /\ ~IsDiagnostic(last_call.out.value)
                 /\ Contains(last_call.out.value,
                             str_value(dict_get(info, last_call.input)))
            ELSE IsDiagnostic(last_call.out.value)

\* The providers of the base tables and of the monthly rollups.
NonRollupProviders ==
  {"Reviews_ForLS", "Calls_ForLS", "Opportunities_ForLS", "Ad_Expense_Data_ForLS"}
RollupProviders ==
  {"Ad_Expense_Data_Monthly_ForLS", "Opportunities_Monthly_ForLS", "Calls_Monthly_ForLS"}

\* The names of the four time windows, in their order.
TimeWindowLabels ==
  <<"Last 1 month", "Last 3 months", "Last 6 months", "Last 12 months">>

\* C12: "time_periods" asked of a provider of a base table gets the
\* diagnostic and does not raise; asked of a provider of a monthly rollup it
\* gets the contract's four time windows, of 1, 3, 6 and 12 months in this
\* order.
C12_TimePeriods ==
  (ProviderCalled /\ last_call.input = S_time_periods) =>
    LET text == last_call.out.value
    IN /\ ~last_call.out.raised
       /\ last_call.tool \in NonRollupProviders => IsDiagnostic(text)
       /\ last_call.tool \in RollupProviders =>
            LET windows == dict_get(table_info_of(last_call.tool), S_time_periods).val
            IN /\ ~IsDiagnostic(text)
               /\ Len(windows) = 4
               /\ \A k \in 1..4 :
                    /\ windows[k][1] = TimeWindowLabels[k]
                    /\ Cardinality(Positions(text, TimeWindowLabels[k])) = 1
                    /\ Contains(text, repr_str(windows[k]))
               /\ \A k \in 1..3 :
                    KthOf(Positions(text, TimeWindowLabels[k]), 1)
                      < KthOf(Positions(text, TimeWindowLabels[k + 1]), 1)

\* C12 witness: the reviews provider, of a base table, was asked
\* "time_periods" and returned the diagnostic.
C12_Witness ==
  /\ last_call.tool = "Reviews_ForLS"
  /\ last_call.input = S_time_periods
  /\ ~last_call.out.raised
  /\ last_call.out.value = <<"No information found for query: ">> \o S_time_periods

\* C13 as stated: the answer to "structure" holds the contract's full_query
\* verbatim, line breaks and quote characters included.
C13_StructureVerbatim ==
  (ProviderCalled /\ last_call.input = S_structure) =>
    /\ ~last_call.out.raised
    /\ Contains(last_call.out.value,
                dict_get(table_info_of(last_call.tool), S_full_query).val)

\* C13 as amended: the answer to "structure" holds the contract's full_query
\* as the string literal repr() writes: in quotes, each line break written
\* as a backslash and an n, each backslash doubled; read back as a literal,
\* it is the full_query.
C13_StructureHoldsLiteral ==
  (ProviderCalled /\ last_call.input = S_structure) =>
    LET full_query == dict_get(table_info_of(last_call.tool), S_full_query).val
    IN /\ ~last_call.out.raised
       /\ Contains(last_call.out.value,
                   repr_str(S_full_query) \o <<": ">> \o repr_str(full_query))
       /\ Positions(last_call.out.value, "\n") = {}

\* C13 witness: the calls provider was asked "structure", and its
\* full_query has line breaks.
C13_Witness ==
  /\ last_call.tool = "Calls_ForLS"
  /\ last_call.input = S_structure
  /\ ~last_call.out.raised
  /\ Positions(CallsForLS_full_query, "\n") # {}
  /\ Contains(last_call.out.value, repr_str(CallsForLS_full_query))

\* The parts of a text that the chunk `sep` separates.
SplitAt(text, sep) ==
  LET seps == Positions(text, sep)
      n == Cardinality(seps)
  IN [k \in 1..(n + 1) |->
        SubSeq(text,
               (IF k = 1 THEN 0 ELSE KthOf(seps, k - 1)) + 1,
               (IF k = n + 1 THEN Len(text) + 1 ELSE KthOf(seps, k)) - 1)]

\* The catalog has just been called.
CatalogCalled(call) == call.tool = "Data Schema Roadmap"

\* The call was the list operation: "list tables" in any letter case.
IsListCall(call) ==
  /\ CatalogCalled(call)
  /\ AllLower(call.input) = S_list_tables

\* The call was a describe: "describe " in any letter case, then an identifier.
IsDescribeCall(call) ==
  /\ CatalogCalled(call)
  /\ Len(call.input) >= Len(S_describe_)
  /\ AllLower(SubSeq(call.input, 1, Len(S_describe_))) = S_describe_

\* The identifier a describe call names.
DescribedIdentifier(call) ==
  SubSeq(call.input, Len(S_describe_) + 1, Len(call.input))

\* The not-found message for an identifier.
NotFoundMessage(id) == <<"Table ">> \o id \o <<" not found in the schema map.">>

\* The text after the chunk "Fields: " of a description.
FieldListOf(text) ==
  SubSeq(text, KthOf(Positions(text, "Fields: "), 1) + 1, Len(text))

\* The describe returned the description of the identifier.
DescribeSucceeded(call) ==
  /\ ~call.out.raised
  /\ call.out.value # NotFoundMessage(DescribedIdentifier(call))
  /\ str_startswith(call.out.value,
       <<"Table: ">> \o DescribedIdentifier(call) \o <<"\n", "Description: ">>)
  /\ Cardinality(Positions(call.out.value, "Fields: ")) = 1

\* C14: a describe of an identifier that the preceding "list tables" listed
\* succeeds: it returns the table's description and fields, and the field
\* list is not empty.
C14_ListedTablesDescribe ==
  [][ ( /\ IsListCall(last_call)
        /\ ~last_call.out.raised
        /\ IsDescribeCall(last_call')
        /\ DescribedIdentifier(last_call')
             \in Range(SplitAt(last_call.out.value, "\n")) ) =>
      ( /\ DescribeSucceeded(last_call')
        /\ FieldListOf(last_call'.out.value) # <<>>
        /\ Len(dict_get(catalog, DescribedIdentifier(last_call')).fields) > 0 ) ]_vars

\* C14 witness: the last identifier of the listing was described, and the
\* description came back.
C14_Witness ==
  /\ IsDescribeCall(last_call)
  /\ DescribedIdentifier(last_call) =
       dict_keys(schema_map)[Len(dict_keys(schema_map))]
  /\ DescribeSucceeded(last_call)
  /\ FieldListOf(last_call.out.value) # <<>>

\* C15: a describe of an identifier the catalog does not hold returns
\* "Table <identifier> not found in the schema map." and does not raise,
\* whatever follows "describe ": the empty string, a table identifier in
\* another letter case, a table identifier after an extra space.
C15_DescribeMiss ==
  IsDescribeCall(last_call) =>
    /\ ~last_call.out.raised
    /\ IsString(last_call.out.value)
    /\ DescribedIdentifier(last_call) \notin TableIdentifiers =>
         last_call.out.value = NotFoundMessage(DescribedIdentifier(last_call))

\* C15 witness: a table identifier in lower case was described and the
\* not-found message came back.
C15_Witness ==
  /\ IsDescribeCall(last_call)
  /\ DescribedIdentifier(last_call) \notin TableIdentifiers
  /\ \E id \in TableIdentifiers : DescribedIdentifier(last_call) = AllLower(id)
  /\ last_call.out = Returned(NotFoundMessage(DescribedIdentifier(last_call)))

\* C16: no catalog operation changes the catalog's contents, and a describe
\* returns, after any sequence of operations, what a describe of the same
\* identifier returns on the catalog as constructed; two describes of one
\* identifier in a row return the same.
C16_DescribeIdempotent ==
  [][ /\ catalog' = catalog
      /\ catalog' = schema_map
      /\ IsDescribeCall(last_call') =>
           last_call'.out = DataSchemaRoadmap_run(schema_map, last_call'.input)
      /\ ( /\ IsDescribeCall(last_call)
           /\ IsDescribeCall(last_call')
           /\ DescribedIdentifier(last_call') = DescribedIdentifier(last_call) ) =>
           last_call'.out = last_call.out ]_vars

\* C16 witness: a table was described and its description came back.
C16_Witness ==
  /\ IsDescribeCall(last_call)
  /\ DescribedIdentifier(last_call) \in TableIdentifiers
  /\ DescribeSucceeded(last_call)
  /\ catalog = schema_map

\* No member of the sequence occurs in it twice.
NoDuplicates(s) == \A i, j \in DOMAIN s : s[i] = s[j] => i = j

\* C17: every "list tables", at any point of any sequence of operations,
\* returns the catalog's seven table identifiers, none twice, in the order
\* schema_map was written in.
C17_ListStable ==
  IsListCall(last_call) =>
    LET listed == SplitAt(last_call.out.value, "\n")
    IN /\ ~last_call.out.raised
       /\ Len(listed) = 7
       /\ NoDuplicates(listed)
       /\ listed = dict_keys(schema_map)
       /\ listed[1] = <<"t","h","e","_","p","u","l","s","e",".",
                        "r","e","v","i","e","w","s","_","f","o","r","L","S">>
       /\ listed[7] = <<"t","h","e","_","p","u","l","s","e",".",
                        "o","p","p","o","r","t","u","n","i","t","i","e","s","_",
                        "f","o","r","L","S">>

\* C17 witness: "LIST TABLES" was asked and seven identifiers came back.
C17_Witness ==
  /\ IsListCall(last_call)
  /\ last_call.input = AllUpper(S_list_tables)
  /\ ~last_call.out.raised
  /\ Len(SplitAt(last_call.out.value, "\n")) = 7

\* The text of a string: its chunks joined.
RECURSIVE Text(_)
Text(s) ==
  IF Len(s) = 0 THEN ""
  ELSE IF Len(s) = 1 THEN s[1]
  ELSE LET half == Len(s) \div 2
       IN Text(SubSeq(s, 1, half)) \o Text(SubSeq(s, half + 1, Len(s)))

\* The table a provider tool is for: the `name` of its table_info, in the
\* dataset the catalog names its tables in.
TableOfTool(name) ==
  "the_pulse." \o Text(dict_get(table_info_of(name), <<"n","a","m","e">>).val)

\* How many members of the sequence satisfy the test.
CountOf(s, Test(_)) == Cardinality({i \in DOMAIN s : Test(s[i])})

\* C18: the agent of the session is bound to a list of tools with pairwise
\* distinct names: one Query Executor tool, one Schema Catalog tool, and
\* for every table identifier of the Schema Catalog exactly one provider
\* tool, every provider tool being for a table of the catalog; every
\* question of the session runs on this agent and so on this list.
C18_ToolList ==
  app_state.agent # None =>
    LET bound == app_state.agent[1].tools
        providers == SelectSeq(bound,
                       LAMBDA t : t \notin {"BigQuery", "Data Schema Roadmap"})
        tables == {Text(id) : id \in Range(dict_keys(catalog))}
    IN /\ NoDuplicates(bound)
       /\ CountOf(bound, LAMBDA t : t = "BigQuery") = 1
       /\ CountOf(bound, LAMBDA t : t = "Data Schema Roadmap") = 1
       /\ Cardinality(tables) = 7
       /\ Len(providers) = Cardinality(tables)
       /\ \A table \in tables :
            CountOf(providers, LAMBDA t : TableOfTool(t) = table) = 1
       /\ \A i \in DOMAIN providers : TableOfTool(providers[i]) \in tables
       /\ run_on # None => run_on = app_state.agent

\* C18 witness: the second question of a session runs on the session's agent.
C18_Witness ==
  /\ pc = "loop"
  /\ Len(Transcript) = 3
  /\ app_state.agent # None
  /\ run_on = app_state.agent
  /\ Len(run_on[1].tools) = 9

\* The step accepts a question: a user entry is appended to the transcript.
Accepted ==
  /\ Len(Transcript') = Len(Transcript) + 1
  /\ Transcript'[Len(Transcript')].role = "user"

\* No question is in progress: no run_agent call is open and nothing of one
\* is left.
NothingInProgress ==
  /\ pc = "idle"
  /\ prompt = <<>>
  /\ run_on = None
  /\ last_call = NoCall
  /\ engine_out = NoOut

C20_AppendOnly ==
  [][ /\ Len(Transcript') >= Len(Transcript)
      /\ SubSeq(Transcript', 1, Len(Transcript)) = Transcript
      /\ \A i \in DOMAIN Transcript' : Transcript'[i].role \in {"user", "assistant"} ]_vars

\* C20 witness: two questions and their two answers are in the transcript,
\* in the order they were appended.
C20_Witness ==
  /\ pc = "idle"
  /\ Len(Transcript) = 4
  /\ Transcript[1] = [role |-> "user", content |-> Question_leads]
  /\ Transcript[2].role = "assistant"
  /\ Transcript[3] = [role |-> "user", content |-> Question_leads]
  /\ Transcript[4].role = "assistant"

\* The loop's last tool call was an executor call in which the warehouse
\* failed.
ExecutorFaulted ==
  /\ last_call.tool = "BigQuery"
  /\ last_call.w.kind # "rows"

\* C21: a fault inside the Query Executor comes back to the loop as a tool
\* result: the executor returns its error-prefixed string, the question is
\* not ended and no exception is on its way to run_agent; while the
\* iteration ceiling is not reached the loop can invoke a tool again, the
\* executor with another SQL text among them.
C21_FaultIsToolResult ==
  /\ ExecutorFaulted =>
       /\ ~last_call.out.raised
       /\ HasErrorPrefix(last_call.out.value)
       /\ pc = "loop"
       /\ engine_out = NoOut
       /\ iterations >= 1
       /\ iterations < max_iterations =>
            /\ \E w \in Warehouse(SQL_select_1) :
                 ENABLED EngineAct("BigQuery", SQL_select_1, w)
            /\ ENABLED EngineAct("Data Schema Roadmap", S_list_tables, NoWarehouse)
  /\ engine_out.how = "tool_fault" => last_call.tool # "BigQuery"

\* C21 witness: the executor was given malformed SQL in a question's third
\* iteration, returned the error string, and the loop goes on.
C21_Witness ==
  /\ ExecutorFaulted
  /\ last_call.input = SQL_malformed
  /\ HasErrorPrefix(last_call.out.value)
  /\ pc = "loop"
  /\ iterations = 3
  /\ ENABLED EngineAct("BigQuery", SQL_select_1,
                       WarehouseRows(<< << [key |-> <<"f0_">>, value |-> IntCell("1")] >> >>))

\* The step is a tool call the loop counts.
ToolCallStep == pc = "loop" /\ iterations' = iterations + 1

Step_list_tables ==
  << "        1. Check the Data Schema Roadmap tool and identify the relevant table(s) for the query. Use the command ",
     "\"", "list tables", "\"" >>
Step_select_tool ==
  << "        2. After identifying the relevant table, select the appropriate tool from the tool roster." >>
Step_execute ==
  << "        5. Use the Bigquery tool to execute the query as described" >>
Step_answer ==
  << "        7. Interpret the results and provide a natural language answer." >>

\* The place of a part in a text that holds it once.
PlaceOf(text, part) ==
  CHOOSE i \in 0..(Len(text) - Len(part)) : SubSeq(text, i + 1, i + Len(part)) = part

HoldsOnce(text, part) ==
  Cardinality({i \in 0..(Len(text) - Len(part)) :
                 SubSeq(text, i + 1, i + Len(part)) = part}) = 1

C23_QuestionAlone ==
  pc = "loop" =>
    /\ Transcript # <<>> =>
         /\ Transcript[Len(Transcript)].role = "user"
         /\ engine_in = instruction_head \o Transcript[Len(Transcript)].content
                        \o instruction_steps
    /\ engine_in = instruction_head \o prompt \o instruction_steps
    /\ run_on[1].tools = tools
    /\ iterations <= run_on[1].max_iterations

\* C23 witness: the second question of a session, the same as the first, is
\* with the engine, and the text handed over is the one for that question.
C23_Witness ==
  /\ pc = "loop"
  /\ Len(Transcript) = 3
  /\ Transcript[1].content = Transcript[3].content
  /\ engine_in = instruction_head \o Transcript[3].content \o instruction_steps

\* C24: one execute call gives the warehouse the SQL text it received, as
\* received, and exactly once: nothing is added or rewritten, and a failed
\* query is not sent again.
C24_SentVerbatimOnce ==
  last_call.tool = "BigQuery" =>
    /\ Len(last_call.sent) = 1
    /\ last_call.sent[1] = last_call.input
    /\ last_call.sent = <<last_call.input>>

\* C24 witness: a query with backticks failed at the warehouse, and it was
\* sent once.
C24_Witness ==
  /\ last_call.tool = "BigQuery"
  /\ last_call.input = SQL_leads
  /\ Positions(last_call.input, BT) # {}
  /\ last_call.w.kind = "query_fault"
  /\ last_call.sent = <<SQL_leads>>

\* The provider tools for the table of a catalog identifier.
ProvidersOf(id) == {name \in Range(ProviderTools) : TableOfTool(name) = Text(id)}

\* C25: the field list the catalog's describe returns for a table is the
\* sequence of field names of that table's provider contract
\* (table_info["fields"]), in the same order.
C25_CatalogMatchesContract ==
  (IsDescribeCall(last_call) /\ DescribedIdentifier(last_call) \in TableIdentifiers) =>
    /\ DescribeSucceeded(last_call)
    /\ \A name \in ProvidersOf(DescribedIdentifier(last_call)) :
         SplitAt(FieldListOf(last_call.out.value), ", ")
           = dict_keys(dict_get(table_info_of(name), S_fields).val)

\* A text, as one string, holds the part.
TextContains(text, part) ==
  \E i \in 0..(Len(text) - Len(part)) : SubSeq(text, i + 1, i + Len(part)) = part

\* The expression of a field's provenance: what follows "Calculated using: ".
CalculatedPrefix == "Calculated using: "
IsCalculated(provenance) ==
  /\ Len(provenance) > Len(CalculatedPrefix)
  /\ SubSeq(provenance, 1, Len(CalculatedPrefix)) = CalculatedPrefix
ExpressionOf(provenance) ==
  SubSeq(provenance, Len(CalculatedPrefix) + 1, Len(provenance))

\* C26: in every provider's contract, each of source_table, partitioning,
\* clustering and grouping whose value is not "none", and the expression of
\* every calculated field, occurs as text in the contract's full_query.
C26_LexicallyConsistent ==
  ProviderCalled =>
    LET info == table_info_of(last_call.tool)
        full_query == Text(dict_get(info, S_full_query).val)
    IN /\ ( /\ last_call.input \in {S_source_table, S_partitioning, S_clustering, S_grouping}
            /\ dict_has(info, last_call.input)
            /\ dict_get(info, last_call.input).val # <<"none">> ) =>
            TextContains(full_query, Text(dict_get(info, last_call.input).val))
       /\ ( /\ last_call.input \in FieldNames(last_call.tool)
            /\ IsCalculated(Text(dict_get(dict_get(info, S_fields).val, last_call.input))) ) =>
            TextContains(full_query,
              ExpressionOf(Text(dict_get(dict_get(info, S_fields).val, last_call.input))))

\* C27: run_agent is only called in a ready session: logged_in implies a
\* stored agent, the chat page is shown only when logged_in, and while a
\* question is in progress the session is logged in and run_agent runs on
\* the stored agent.
C27_AskOnlyWhenReady ==
  /\ app_state.logged_in => app_state.agent # None
  /\ page(app_state) = "chat" => app_state.logged_in
  /\ pc # "idle" =>
       /\ app_state.logged_in
       /\ page(app_state) = "chat"
       /\ run_on # None
       /\ run_on = app_state.agent
  /\ engine_out.how # "no_agent"

\* C27 witness: run_agent has been called in a logged-in session.
C27_Witness ==
  /\ pc = "call"
  /\ app_state.logged_in
  /\ run_on = Some(TheAgent)
  /\ Len(Transcript) = 1

\* The roles of the transcript alternate, beginning with user.
Alternates(t) ==
  \A i \in DOMAIN t : t[i].role = (IF i % 2 = 1 THEN "user" ELSE "assistant")

\* The transcript as C28 wants it in this state.
AlternationHolds ==
  /\ Alternates(Transcript)
  /\ pc = "idle" => Len(Transcript) % 2 = 0
  /\ pc # "idle" =>
       /\ Len(Transcript) % 2 = 1
       /\ Transcript[Len(Transcript)].content = prompt

MixedCaseFields(name) == {v \in FieldNames(name) : AllLower(v) # v}

EmptyKeyLogin ==
  \/ \E ok \in BOOLEAN : LoginOnChange(<<>>, ok)
  \/ widget_key = <<>> /\ \E ok \in BOOLEAN : LoginButton(ok)

\* C30: a login attempt with an empty key changes nothing: setup_agent is
\* not called (no environment variable is set, no tool is constructed), and
\* logged_in, the agent, the stored key and the transcript stay as they are.
C30_EmptyKeyChangesNothing ==
  [][ EmptyKeyLogin =>
        /\ environ_key' = environ_key
        /\ catalog' = catalog
        /\ app_state'.logged_in = app_state.logged_in
        /\ app_state'.agent = app_state.agent
        /\ app_state'.openai_api_key = app_state.openai_api_key
        /\ app_state'.messages = app_state.messages
        /\ ~app_state'.logged_in
        /\ page(app_state') = "login" ]_vars

\* C30 witness: after a login with a key failed, the key field was emptied
\* and attempt_login ran with the empty key; the session is not logged in.
C30_Witness ==
  /\ has_app_state
  /\ widget_key = <<>>
  /\ environ_key # <<>>
  /\ ~app_state.logged_in
  /\ app_state.agent = None
  /\ app_state.openai_api_key = <<>>

=============================================================================
